---- MODULE Spec2Model ----
(***************************************************************************)
(* PreschoolReviewApp: the query core of PreschoolService                  *)
(* (src/src/services/PreschoolService.js), RecommendationService           *)
(* (src/unnamed/part_003) and the data module (src/unnamed/part_002,       *)
(* lines 1374-1509).                                                       *)
(*                                                                         *)
(* Representation.  A JavaScript string is a sequence of character codes   *)
(* (ASCII), so that toLowerCase and includes are computed, not assumed.    *)
(* A rating is kept in tenths (4.7 is 47): every rating and threshold of   *)
(* the source has one decimal.  A JavaScript object is a TLA+ record whose *)
(* DOMAIN is the set of properties the object has: a property the object   *)
(* lacks reads as undefined.                                               *)
(***************************************************************************)
EXTENDS Integers, Sequences, FiniteSets, TLC

\* ------------------------------------------------------------------ bounds
\* Longest record list the data warehouse holds in the model.
MaxRecords == 2
\* Largest page number and largest limit a caller passes.
MaxPage == 3
MaxLimit == 2

\* ----------------------------------------------------------------- strings
\* String.prototype.toLowerCase on ASCII text.
toLowerCase(s) ==
  [i \in 1..Len(s) |-> IF s[i] \in 65..90 THEN s[i] + 32 ELSE s[i]]

\* String.prototype.includes: t occurs in s as a contiguous substring.
includes(s, t) ==
  \E i \in 0..(Len(s) - Len(t)) : SubSeq(s, i + 1, i + Len(t)) = t

\* Property read p.f of an object: has(p, f) is "p.f is not undefined".
has(p, f) == f \in DOMAIN p

\* JavaScript truthiness of a string-valued property: present and non-empty.
truthy(p, f) == has(p, f) /\ p[f] # <<>>

\* Array.prototype.filter: the elements whose test came out true, in their
\* order.  keep[i] is the value of the callback on s[i].
filter(s, keep) ==
  LET kept[n \in 0..Len(s)] ==
        IF n = 0 THEN <<>>
        ELSE IF keep[n] THEN Append(kept[n - 1], s[n]) ELSE kept[n - 1]
  IN  kept[Len(s)]

\* slice with the end index taken as inclusive.
sliceEndInclusive(s, start, end) ==
  LET len  == Len(s)
      from == IF start < 0 THEN (IF len + start > 0 THEN len + start ELSE 0)
                           ELSE (IF start < len THEN start ELSE len)
      to   == IF end < 0 THEN (IF len + end > 0 THEN len + end ELSE 0)
                         ELSE (IF end + 1 < len THEN end + 1 ELSE len)
  IN  IF to > from THEN SubSeq(s, from + 1, to) ELSE <<>>

\* slice with the start index clamped to the last element, not to the length.
sliceStartOnLast(s, start, end) ==
  LET len  == Len(s)
      from == IF start < 0 THEN (IF len + start > 0 THEN len + start ELSE 0)
              ELSE (IF start < len THEN start
                    ELSE (IF len > 0 THEN len - 1 ELSE 0))
      to   == IF end < 0 THEN (IF len + end > 0 THEN len + end ELSE 0)
                         ELSE (IF end < len THEN end ELSE len)
  IN  IF to > from THEN SubSeq(s, from + 1, to) ELSE <<>>

\* slice that takes every element from the start index on, whatever the end
\* index.
sliceToTheEnd(s, start, end) ==
  LET len  == Len(s)
      from == IF start < 0 THEN (IF len + start > 0 THEN len + start ELSE 0)
                           ELSE (IF start < len THEN start ELSE len)
  IN  IF len > from THEN SubSeq(s, from + 1, len) ELSE <<>>

\* Array.prototype.slice(start, end) with the relative-index rules of the
\* language: a negative index counts from the end, both are clamped.
slice(s, start, end) ==
  LET len  == Len(s)
      from == IF start < 0 THEN (IF len + start > 0 THEN len + start ELSE 0)
                           ELSE (IF start < len THEN start ELSE len)
      to   == IF end < 0 THEN (IF len + end > 0 THEN len + end ELSE 0)
                         ELSE (IF end < len THEN end ELSE len)
  IN  IF to > from THEN SubSeq(s, from + 1, to) ELSE <<>>

\* Array.prototype.sort(compare): stable (ECMAScript 2019, sec. 22.1.3.27),
\* computed as an insertion sort: each element goes right after the last
\* element already placed that does not compare greater than it.
\* compare[i][j] is the value of the callback on (s[i], s[j]).
sort(s, compare) ==
  LET insert(done, x) ==
        LET ok == {i \in 1..Len(done) : compare[done[i]][x] <= 0}
            k  == IF ok = {} THEN 0
                  ELSE CHOOSE i \in ok : \A j \in ok : j <= i
        IN  SubSeq(done, 1, k) \o <<x>> \o SubSeq(done, k + 1, Len(done))
      order[n \in 0..Len(s)] ==
        IF n = 0 THEN <<>> ELSE insert(order[n - 1], n)
  IN  [i \in 1..Len(s) |-> s[order[Len(s)][i]]]

\* ------------------------------------------------- built-in reference set
\* The six hardcoded records of getMockPreschools.  phone, website, hours,
\* images and reviews are left out: no operation of the services reads them.
\* part_003:220-254: id 'p1', name 'Sunshine Preschool', rating 4.7,
\* reviewCount 128, tuition '$1,500-$1,800/month', ageRange '2-5 years',
\* curriculum 'Play-based, Montessori-inspired', address '123 Main St, Palo Alto, CA 94301',
\* features 'Outdoor playground', 'Organic meals included', 'Multilingual staff', 'Music and art programs'.
MockP1 ==
  [id |-> <<112, 49>>,
   name |-> <<83, 117, 110, 115, 104, 105, 110, 101, 32, 80, 114, 101, 115, 99, 104,
            111, 111, 108>>,
   description |->
      <<65, 32, 110, 117, 114, 116, 117, 114, 105, 110, 103, 32, 101, 110, 118, 105,
      114, 111, 110, 109, 101, 110, 116, 32, 119, 104, 101, 114, 101, 32, 99, 104, 105,
      108, 100, 114, 101, 110, 32, 108, 101, 97, 114, 110, 32, 116, 104, 114, 111, 117,
      103, 104, 32, 112, 108, 97, 121, 32, 97, 110, 100, 32, 100, 105, 115, 99, 111,
      118, 101, 114, 121, 46, 32, 79, 117, 114, 32, 99, 117, 114, 114, 105, 99, 117,
      108, 117, 109, 32, 102, 111, 99, 117, 115, 101, 115, 32, 111, 110, 32, 115, 111,
      99, 105, 97, 108, 45, 101, 109, 111, 116, 105, 111, 110, 97, 108, 32, 100, 101,
      118, 101, 108, 111, 112, 109, 101, 110, 116, 44, 32, 101, 97, 114, 108, 121, 32,
      108, 105, 116, 101, 114, 97, 99, 121, 44, 32, 97, 110, 100, 32, 83, 84, 69, 77,
      32, 101, 120, 112, 108, 111, 114, 97, 116, 105, 111, 110, 46>>,
   address |-> <<49, 50, 51, 32, 77, 97, 105, 110, 32, 83, 116, 44, 32, 80, 97, 108, 111,
              32, 65, 108, 116, 111, 44, 32, 67, 65, 32, 57, 52, 51, 48, 49>>,
   rating |-> 47,
   reviewCount |-> 128,
   tuition |-> <<36, 49, 44, 53, 48, 48, 45, 36, 49, 44, 56, 48, 48, 47, 109, 111, 110,
              116, 104>>,
   ageRange |-> <<50, 45, 53, 32, 121, 101, 97, 114, 115>>,
   curriculum |-> <<80, 108, 97, 121, 45, 98, 97, 115, 101, 100, 44, 32, 77, 111, 110,
                 116, 101, 115, 115, 111, 114, 105, 45, 105, 110, 115, 112, 105, 114,
                 101, 100>>,
   features |-> <<<<79, 117, 116, 100, 111, 111, 114, 32, 112, 108, 97, 121, 103, 114,
                 111, 117, 110, 100>>,
                 <<79, 114, 103, 97, 110, 105, 99, 32, 109, 101, 97, 108, 115, 32, 105,
                 110, 99, 108, 117, 100, 101, 100>>,
                 <<77, 117, 108, 116, 105, 108, 105, 110, 103, 117, 97, 108, 32, 115,
                 116, 97, 102, 102>>,
                 <<77, 117, 115, 105, 99, 32, 97, 110, 100, 32, 97, 114, 116, 32, 112,
                 114, 111, 103, 114, 97, 109, 115>>>>]

\* part_003:255-289: id 'p2', name 'Little Explorers Academy', rating 4.5,
\* reviewCount 85, tuition '$1,700-$2,000/month', ageRange '18 months-5 years',
\* curriculum 'Reggio Emilia, Project-based', address '456 Oak Ave, Menlo Park, CA 94025',
\* features 'Nature-based learning', 'Large outdoor space', 'STEM curriculum', 'Field trips'.
MockP2 ==
  [id |-> <<112, 50>>,
   name |-> <<76, 105, 116, 116, 108, 101, 32, 69, 120, 112, 108, 111, 114, 101, 114,
            115, 32, 65, 99, 97, 100, 101, 109, 121>>,
   description |->
      <<65, 110, 32, 105, 110, 110, 111, 118, 97, 116, 105, 118, 101, 32, 112, 114, 101,
      115, 99, 104, 111, 111, 108, 32, 102, 111, 99, 117, 115, 101, 100, 32, 111, 110,
      32, 112, 114, 111, 106, 101, 99, 116, 45, 98, 97, 115, 101, 100, 32, 108, 101, 97,
      114, 110, 105, 110, 103, 32, 97, 110, 100, 32, 111, 117, 116, 100, 111, 111, 114,
      32, 101, 100, 117, 99, 97, 116, 105, 111, 110, 46, 32, 87, 101, 32, 101, 110, 99,
      111, 117, 114, 97, 103, 101, 32, 99, 104, 105, 108, 100, 114, 101, 110, 32, 116,
      111, 32, 101, 120, 112, 108, 111, 114, 101, 44, 32, 113, 117, 101, 115, 116, 105,
      111, 110, 44, 32, 97, 110, 100, 32, 100, 105, 115, 99, 111, 118, 101, 114, 32,
      116, 104, 114, 111, 117, 103, 104, 32, 104, 97, 110, 100, 115, 45, 111, 110, 32,
      97, 99, 116, 105, 118, 105, 116, 105, 101, 115, 46>>,
   address |-> <<52, 53, 54, 32, 79, 97, 107, 32, 65, 118, 101, 44, 32, 77, 101, 110,
              108, 111, 32, 80, 97, 114, 107, 44, 32, 67, 65, 32, 57, 52, 48, 50, 53>>,
   rating |-> 45,
   reviewCount |-> 85,
   tuition |-> <<36, 49, 44, 55, 48, 48, 45, 36, 50, 44, 48, 48, 48, 47, 109, 111, 110,
              116, 104>>,
   ageRange |-> <<49, 56, 32, 109, 111, 110, 116, 104, 115, 45, 53, 32, 121, 101, 97,
               114, 115>>,
   curriculum |-> <<82, 101, 103, 103, 105, 111, 32, 69, 109, 105, 108, 105, 97, 44, 32,
                 80, 114, 111, 106, 101, 99, 116, 45, 98, 97, 115, 101, 100>>,
   features |-> <<<<78, 97, 116, 117, 114, 101, 45, 98, 97, 115, 101, 100, 32, 108, 101,
                 97, 114, 110, 105, 110, 103>>,
                 <<76, 97, 114, 103, 101, 32, 111, 117, 116, 100, 111, 111, 114, 32,
                 115, 112, 97, 99, 101>>,
                 <<83, 84, 69, 77, 32, 99, 117, 114, 114, 105, 99, 117, 108, 117, 109>>,
                 <<70, 105, 101, 108, 100, 32, 116, 114, 105, 112, 115>>>>]

\* part_003:290-324: id 'p3', name 'Montessori Garden', rating 4.8,
\* reviewCount 156, tuition '$1,900-$2,200/month', ageRange '18 months-6 years',
\* curriculum 'Authentic Montessori', address '789 Pine Ln, Palo Alto, CA 94303',
\* features 'AMI-certified teachers', 'Montessori materials', 'Mixed-age classrooms', 'Foreign language instruction'.
MockP3 ==
  [id |-> <<112, 51>>,
   name |-> <<77, 111, 110, 116, 101, 115, 115, 111, 114, 105, 32, 71, 97, 114, 100,
            101, 110>>,
   description |->
      <<65, 32, 116, 114, 117, 101, 32, 77, 111, 110, 116, 101, 115, 115, 111, 114, 105,
      32, 101, 120, 112, 101, 114, 105, 101, 110, 99, 101, 32, 119, 105, 116, 104, 32,
      99, 101, 114, 116, 105, 102, 105, 101, 100, 32, 116, 101, 97, 99, 104, 101, 114,
      115, 32, 97, 110, 100, 32, 97, 32, 99, 97, 114, 101, 102, 117, 108, 108, 121, 32,
      112, 114, 101, 112, 97, 114, 101, 100, 32, 101, 110, 118, 105, 114, 111, 110, 109,
      101, 110, 116, 46, 32, 67, 104, 105, 108, 100, 114, 101, 110, 32, 112, 114, 111,
      103, 114, 101, 115, 115, 32, 97, 116, 32, 116, 104, 101, 105, 114, 32, 111, 119,
      110, 32, 112, 97, 99, 101, 32, 116, 104, 114, 111, 117, 103, 104, 32, 105, 110,
      100, 105, 118, 105, 100, 117, 97, 108, 105, 122, 101, 100, 32, 108, 101, 97, 114,
      110, 105, 110, 103, 32, 112, 108, 97, 110, 115, 46>>,
   address |-> <<55, 56, 57, 32, 80, 105, 110, 101, 32, 76, 110, 44, 32, 80, 97, 108,
              111, 32, 65, 108, 116, 111, 44, 32, 67, 65, 32, 57, 52, 51, 48, 51>>,
   rating |-> 48,
   reviewCount |-> 156,
   tuition |-> <<36, 49, 44, 57, 48, 48, 45, 36, 50, 44, 50, 48, 48, 47, 109, 111, 110,
              116, 104>>,
   ageRange |-> <<49, 56, 32, 109, 111, 110, 116, 104, 115, 45, 54, 32, 121, 101, 97,
               114, 115>>,
   curriculum |-> <<65, 117, 116, 104, 101, 110, 116, 105, 99, 32, 77, 111, 110, 116,
                 101, 115, 115, 111, 114, 105>>,
   features |-> <<<<65, 77, 73, 45, 99, 101, 114, 116, 105, 102, 105, 101, 100, 32, 116,
                 101, 97, 99, 104, 101, 114, 115>>,
                 <<77, 111, 110, 116, 101, 115, 115, 111, 114, 105, 32, 109, 97, 116,
                 101, 114, 105, 97, 108, 115>>,
                 <<77, 105, 120, 101, 100, 45, 97, 103, 101, 32, 99, 108, 97, 115, 115,
                 114, 111, 111, 109, 115>>,
                 <<70, 111, 114, 101, 105, 103, 110, 32, 108, 97, 110, 103, 117, 97,
                 103, 101, 32, 105, 110, 115, 116, 114, 117, 99, 116, 105, 111, 110>>>>]

\* part_003:325-359: id 'p4', name 'Bright Horizons', rating 4.3,
\* reviewCount 210, tuition '$1,600-$1,900/month', ageRange '6 weeks-5 years',
\* curriculum 'Balanced learning approach', address '321 Maple Dr, Menlo Park, CA 94025',
\* features 'Extended hours', 'Infant care available', 'Summer programs', 'Corporate partnerships'.
MockP4 ==
  [id |-> <<112, 52>>,
   name |-> <<66, 114, 105, 103, 104, 116, 32, 72, 111, 114, 105, 122, 111, 110, 115>>,
   description |->
      <<65, 32, 110, 97, 116, 105, 111, 110, 97, 108, 32, 99, 104, 97, 105, 110, 32,
      119, 105, 116, 104, 32, 97, 32, 115, 116, 114, 111, 110, 103, 32, 108, 111, 99,
      97, 108, 32, 112, 114, 101, 115, 101, 110, 99, 101, 44, 32, 111, 102, 102, 101,
      114, 105, 110, 103, 32, 98, 97, 108, 97, 110, 99, 101, 100, 32, 101, 100, 117, 99,
      97, 116, 105, 111, 110, 32, 102, 111, 114, 32, 99, 104, 105, 108, 100, 114, 101,
      110, 32, 119, 105, 116, 104, 32, 97, 32, 102, 111, 99, 117, 115, 32, 111, 110, 32,
      115, 111, 99, 105, 97, 108, 32, 100, 101, 118, 101, 108, 111, 112, 109, 101, 110,
      116, 32, 97, 110, 100, 32, 107, 105, 110, 100, 101, 114, 103, 97, 114, 116, 101,
      110, 32, 114, 101, 97, 100, 105, 110, 101, 115, 115, 46>>,
   address |-> <<51, 50, 49, 32, 77, 97, 112, 108, 101, 32, 68, 114, 44, 32, 77, 101,
              110, 108, 111, 32, 80, 97, 114, 107, 44, 32, 67, 65, 32, 57, 52, 48, 50,
              53>>,
   rating |-> 43,
   reviewCount |-> 210,
   tuition |-> <<36, 49, 44, 54, 48, 48, 45, 36, 49, 44, 57, 48, 48, 47, 109, 111, 110,
              116, 104>>,
   ageRange |-> <<54, 32, 119, 101, 101, 107, 115, 45, 53, 32, 121, 101, 97, 114, 115>>,
   curriculum |-> <<66, 97, 108, 97, 110, 99, 101, 100, 32, 108, 101, 97, 114, 110, 105,
                 110, 103, 32, 97, 112, 112, 114, 111, 97, 99, 104>>,
   features |-> <<<<69, 120, 116, 101, 110, 100, 101, 100, 32, 104, 111, 117, 114, 115>>,
                 <<73, 110, 102, 97, 110, 116, 32, 99, 97, 114, 101, 32, 97, 118, 97,
                 105, 108, 97, 98, 108, 101>>,
                 <<83, 117, 109, 109, 101, 114, 32, 112, 114, 111, 103, 114, 97, 109,
                 115>>,
                 <<67, 111, 114, 112, 111, 114, 97, 116, 101, 32, 112, 97, 114, 116,
                 110, 101, 114, 115, 104, 105, 112, 115>>>>]

\* part_003:360-394: id 'p5', name 'Creative Kids Cooperative', rating 4.6,
\* reviewCount 72, tuition '$900-$1,200/month', ageRange '2-5 years',
\* curriculum 'Play-based, Cooperative', address '567 Willow Way, Palo Alto, CA 94306',
\* features 'Parent participation', 'Lower tuition', 'Strong community', 'Art-focused curriculum'.
MockP5 ==
  [id |-> <<112, 53>>,
   name |-> <<67, 114, 101, 97, 116, 105, 118, 101, 32, 75, 105, 100, 115, 32, 67, 111,
            111, 112, 101, 114, 97, 116, 105, 118, 101>>,
   description |->
      <<65, 32, 112, 97, 114, 101, 110, 116, 45, 112, 97, 114, 116, 105, 99, 105, 112,
      97, 116, 105, 111, 110, 32, 112, 114, 101, 115, 99, 104, 111, 111, 108, 32, 119,
      104, 101, 114, 101, 32, 102, 97, 109, 105, 108, 105, 101, 115, 32, 97, 114, 101,
      32, 97, 99, 116, 105, 118, 101, 108, 121, 32, 105, 110, 118, 111, 108, 118, 101,
      100, 32, 105, 110, 32, 116, 104, 101, 32, 99, 108, 97, 115, 115, 114, 111, 111,
      109, 46, 32, 69, 109, 112, 104, 97, 115, 105, 122, 101, 115, 32, 99, 114, 101, 97,
      116, 105, 118, 105, 116, 121, 44, 32, 99, 111, 109, 109, 117, 110, 105, 116, 121,
      44, 32, 97, 110, 100, 32, 112, 97, 114, 101, 110, 116, 32, 101, 100, 117, 99, 97,
      116, 105, 111, 110, 46>>,
   address |-> <<53, 54, 55, 32, 87, 105, 108, 108, 111, 119, 32, 87, 97, 121, 44, 32,
              80, 97, 108, 111, 32, 65, 108, 116, 111, 44, 32, 67, 65, 32, 57, 52, 51,
              48, 54>>,
   rating |-> 46,
   reviewCount |-> 72,
   tuition |-> <<36, 57, 48, 48, 45, 36, 49, 44, 50, 48, 48, 47, 109, 111, 110, 116,
              104>>,
   ageRange |-> <<50, 45, 53, 32, 121, 101, 97, 114, 115>>,
   curriculum |-> <<80, 108, 97, 121, 45, 98, 97, 115, 101, 100, 44, 32, 67, 111, 111,
                 112, 101, 114, 97, 116, 105, 118, 101>>,
   features |-> <<<<80, 97, 114, 101, 110, 116, 32, 112, 97, 114, 116, 105, 99, 105, 112,
                 97, 116, 105, 111, 110>>,
                 <<76, 111, 119, 101, 114, 32, 116, 117, 105, 116, 105, 111, 110>>,
                 <<83, 116, 114, 111, 110, 103, 32, 99, 111, 109, 109, 117, 110, 105,
                 116, 121>>,
                 <<65, 114, 116, 45, 102, 111, 99, 117, 115, 101, 100, 32, 99, 117, 114,
                 114, 105, 99, 117, 108, 117, 109>>>>]

\* part_003:395-429: id 'p6', name 'Little Scholars Preparatory', rating 4.2,
\* reviewCount 95, tuition '$2,000-$2,300/month', ageRange '3-5 years',
\* curriculum 'Academic, Structured', address '890 Cedar St, Menlo Park, CA 94025',
\* features 'Academic readiness focus', 'Regular assessments', 'Reading and math programs', 'Computer lab'.
MockP6 ==
  [id |-> <<112, 54>>,
   name |-> <<76, 105, 116, 116, 108, 101, 32, 83, 99, 104, 111, 108, 97, 114, 115, 32,
            80, 114, 101, 112, 97, 114, 97, 116, 111, 114, 121>>,
   description |->
      <<65, 110, 32, 97, 99, 97, 100, 101, 109, 105, 99, 97, 108, 108, 121, 45, 102,
      111, 99, 117, 115, 101, 100, 32, 112, 114, 101, 115, 99, 104, 111, 111, 108, 32,
      116, 104, 97, 116, 32, 112, 114, 101, 112, 97, 114, 101, 115, 32, 99, 104, 105,
      108, 100, 114, 101, 110, 32, 102, 111, 114, 32, 115, 117, 99, 99, 101, 115, 115,
      32, 105, 110, 32, 101, 108, 101, 109, 101, 110, 116, 97, 114, 121, 32, 115, 99,
      104, 111, 111, 108, 32, 116, 104, 114, 111, 117, 103, 104, 32, 115, 116, 114, 117,
      99, 116, 117, 114, 101, 100, 32, 108, 101, 97, 114, 110, 105, 110, 103, 32, 97,
      99, 116, 105, 118, 105, 116, 105, 101, 115, 32, 97, 110, 100, 32, 97, 115, 115,
      101, 115, 115, 109, 101, 110, 116, 115, 46>>,
   address |-> <<56, 57, 48, 32, 67, 101, 100, 97, 114, 32, 83, 116, 44, 32, 77, 101,
              110, 108, 111, 32, 80, 97, 114, 107, 44, 32, 67, 65, 32, 57, 52, 48, 50,
              53>>,
   rating |-> 42,
   reviewCount |-> 95,
   tuition |-> <<36, 50, 44, 48, 48, 48, 45, 36, 50, 44, 51, 48, 48, 47, 109, 111, 110,
              116, 104>>,
   ageRange |-> <<51, 45, 53, 32, 121, 101, 97, 114, 115>>,
   curriculum |-> <<65, 99, 97, 100, 101, 109, 105, 99, 44, 32, 83, 116, 114, 117, 99,
                 116, 117, 114, 101, 100>>,
   features |-> <<<<65, 99, 97, 100, 101, 109, 105, 99, 32, 114, 101, 97, 100, 105, 110,
                 101, 115, 115, 32, 102, 111, 99, 117, 115>>,
                 <<82, 101, 103, 117, 108, 97, 114, 32, 97, 115, 115, 101, 115, 115,
                 109, 101, 110, 116, 115>>,
                 <<82, 101, 97, 100, 105, 110, 103, 32, 97, 110, 100, 32, 109, 97, 116,
                 104, 32, 112, 114, 111, 103, 114, 97, 109, 115>>,
                 <<67, 111, 109, 112, 117, 116, 101, 114, 32, 108, 97, 98>>>>]

\* --------------------------------------------------------- warehouse data
\* californiaPreschools.preschools is data, not code: the model draws it
\* from lists of sample records.  An ETL record carries city and zip_code;
\* tuition, ageRange, curriculum, program_type, latitude and longitude are
\* optional.  The id of a warehouse record is the prefix of its shape ('w',
\* 'w', 'CSPP_') followed by its position, so that ids are unique.  A
\* latitude or longitude is a number, kept in millionths of a degree.
\* name 'Mo Kids', description 'Day care', address '1 A St', city 'Palo',
\* zip_code '94301', rating 4.8, reviewCount 20, tuition '$1,2',
\* ageRange '2-5 Years', curriculum 'Play', program_type 'CSPP',
\* features 'Yard', latitude 37.8477, longitude -122.4194.
Shape1 ==
  [name |-> <<77, 111, 32, 75, 105, 100, 115>>,
   description |-> <<68, 97, 121, 32, 99, 97, 114, 101>>,
   address |-> <<49, 32, 65, 32, 83, 116>>,
   city |-> <<80, 97, 108, 111>>,
   zip_code |-> <<57, 52, 51, 48, 49>>,
   rating |-> 48,
   reviewCount |-> 20,
   tuition |-> <<36, 49, 44, 50>>,
   ageRange |-> <<50, 45, 53, 32, 89, 101, 97, 114, 115>>,
   curriculum |-> <<80, 108, 97, 121>>,
   program_type |-> <<67, 83, 80, 80>>,
   features |-> <<<<89, 97, 114, 100>>>>,
   latitude |-> 37847700,
   longitude |-> -122419400]

\* name 'Bee', description 'mo', address '2 B St', city 'Menlo',
\* zip_code '94025', rating 4.3, reviewCount 0, no tuition, no ageRange,
\* no curriculum, no features, no latitude, no longitude.
Shape2 ==
  [name |-> <<66, 101, 101>>,
   description |-> <<109, 111>>,
   address |-> <<50, 32, 66, 32, 83, 116>>,
   city |-> <<77, 101, 110, 108, 111>>,
   zip_code |-> <<57, 52, 48, 50, 53>>,
   rating |-> 43,
   reviewCount |-> 0,
   features |-> <<>>]

\* name 'Oak', description 'Garden', address '3 Palo Rd', city 'Alto',
\* zip_code '94303', rating 4.7, reviewCount 128, tuition '$900',
\* ageRange '3 years', curriculum 'Montessori', features 'Art', 'Pool',
\* latitude 37.7849, longitude -122.4194.
Shape3 ==
  [name |-> <<79, 97, 107>>,
   description |-> <<71, 97, 114, 100, 101, 110>>,
   address |-> <<51, 32, 80, 97, 108, 111, 32, 82, 100>>,
   city |-> <<65, 108, 116, 111>>,
   zip_code |-> <<57, 52, 51, 48, 51>>,
   rating |-> 47,
   reviewCount |-> 128,
   tuition |-> <<36, 57, 48, 48>>,
   ageRange |-> <<51, 32, 121, 101, 97, 114, 115>>,
   curriculum |-> <<77, 111, 110, 116, 101, 115, 115, 111, 114, 105>>,
   features |-> <<<<65, 114, 116>>, <<80, 111, 111, 108>>>>,
   latitude |-> 37784900,
   longitude |-> -122419400]

Shapes == <<Shape1, Shape2, Shape3>>
ShapeIdPrefix == <<<<119>>, <<119>>, <<67, 83, 80, 80, 95>>>>

\* The record at position i of a warehouse list drawn from the shapes.
WarehouseRecord(shape, i) ==
  [f \in DOMAIN Shapes[shape] \cup {"id"} |->
     IF f = "id" THEN Append(ShapeIdPrefix[shape], 48 + i)
     ELSE Shapes[shape][f]]

WarehouseLists ==
  UNION {[1..n -> 1..Len(Shapes)] : n \in 0..MaxRecords}

\* ------------------------------------------------------------------ state
VARIABLES
  warehouse,              \* californiaPreschools.preschools (part_002:1381)
  recommendationService,  \* PreschoolService.recommendationService is set
  call,                   \* the call waiting on its simulated delay
  filtered,               \* the handler's local `filtered` of the last call
  outcome,                \* how the last call settled
  kept,                   \* a result of generateMatchReasons the caller holds
  favorites,              \* PreschoolService.favorites (PreschoolService.js:9)
  saved,                  \* ids passed to save and not to remove since
  waiting,                \* further calls waiting on their simulated delays
  detailScreen,           \* PreschoolDetailScreen (part_002:446-452)
  featuredPreschools,     \* FeaturedPreschools (part_000:172-175)
  homeScreen              \* HomeScreen (part_002:155-158)

\* The state of the three components.
screens == <<detailScreen, featuredPreschools, homeScreen>>

\* The state of the two services and of their callers.
services ==
  <<warehouse, recommendationService, call, filtered, outcome, kept, favorites,
    saved, waiting>>

vars == <<services, screens>>

\* A component that has not been mounted.
Unmounted == [mounted |-> FALSE]

NoCall == [op |-> "none"]
NoOutcome == [status |-> "none"]

\* getAllPreschools (part_002:1388-1395).
getAllPreschools == warehouse

\* The fallback list of getMockPreschools (part_003:219-430).
MockFallback == <<MockP1, MockP2, MockP3, MockP4, MockP5, MockP6>>

\* RecommendationService.getMockPreschools (part_003:204-431).
getMockPreschools ==
  IF Len(getAllPreschools) > 0 THEN getAllPreschools ELSE MockFallback

\* PreschoolService constructor (PreschoolService.js:5-10) over the data
\* the bundle was built with.
Init ==
  /\ warehouse \in {[i \in DOMAIN l |-> WarehouseRecord(l[i], i)] :
                      l \in WarehouseLists}
  /\ recommendationService = FALSE
  /\ call = NoCall
  /\ filtered = <<>>
  /\ outcome = NoOutcome
  /\ kept = NoOutcome
  /\ favorites = <<>>
  /\ saved = {}
  /\ waiting = {}
  /\ detailScreen = Unmounted
  /\ featuredPreschools = Unmounted
  /\ homeScreen = Unmounted

\* setRecommendationService (PreschoolService.js:12-14).
SetRecommendationService ==
  /\ recommendationService' = TRUE
  /\ UNCHANGED <<warehouse, call, filtered, outcome, kept, favorites, saved,
                 waiting, screens>>

\* The caller awaiting the call takes its outcome; the handler's frame is
\* gone.  Calls are issued one at a time by a caller that awaits each.
Deliver ==
  /\ outcome # NoOutcome
  /\ outcome' = NoOutcome
  /\ filtered' = <<>>
  /\ UNCHANGED <<warehouse, recommendationService, call, kept, favorites,
                 saved, waiting, screens>>

\* ----------------------------------------------------------------- search
\* The values a caller passes.  An absent query or filter is its falsy
\* value (the empty string, 0): the code tests truthiness only.
Queries == {<<>>, <<109, 111>>, <<80, 65, 76, 79>>}        \* '', 'mo', 'PALO'
MinRatings == {0, 43, 46}                                  \* none, 4.3, 4.6
AgeRanges == {<<>>, <<89, 101, 97, 114, 115>>}             \* '', 'Years'
Curricula == {<<>>, <<80, 76, 65, 89>>}                    \* '', 'PLAY'
PriceRanges == {<<>>, <<36, 49, 44>>}                      \* '', '$1,'
Pages == (-1)..MaxPage
Limits == (-1)..MaxLimit

\* The query test of searchPreschools (PreschoolService.js:68-76).
matchesQuery(p, query) ==
  LET lowerQuery == toLowerCase(query)
  IN  \/ includes(toLowerCase(p.name), lowerQuery)
      \/ includes(toLowerCase(p.description), lowerQuery)
      \/ includes(toLowerCase(p.address), lowerQuery)
      \/ (truthy(p, "curriculum") /\ includes(toLowerCase(p.curriculum), lowerQuery))

\* filters.minRating (PreschoolService.js:79-81).
matchesMinRating(p, minRating) == p.rating >= minRating

\* filters.ageRange (PreschoolService.js:83-85).
matchesAgeRange(p, ageRange) ==
  truthy(p, "ageRange") /\ includes(p.ageRange, ageRange)

\* filters.curriculum (PreschoolService.js:87-91).
matchesCurriculum(p, curriculum) ==
  truthy(p, "curriculum")
    /\ includes(toLowerCase(p.curriculum), toLowerCase(curriculum))

\* filters.priceRange (PreschoolService.js:93-99).
matchesPriceRange(p, priceRange) ==
  truthy(p, "tuition") /\ includes(p.tuition, priceRange)

\* A copy ranked by rating, highest first.
spreadRanked(list) ==
  sort(list, [i \in DOMAIN list |->
                [j \in DOMAIN list |-> list[j].rating - list[i].rating]])

\* [...allPreschools] (PreschoolService.js:66): a copy in the same order.
spread(list) == list

\* if (query) filtered = filtered.filter(...) (PreschoolService.js:68-76).
byQuery(list, query) ==
  IF query # <<>>
  THEN filter(list, [i \in DOMAIN list |-> matchesQuery(list[i], query)])
  ELSE list

\* The minimum-rating step with an absent threshold matching nothing.
byMinRatingOrNothing(list, minRating) ==
  IF minRating # 0
  THEN filter(list, [i \in DOMAIN list |-> matchesMinRating(list[i], minRating)])
  ELSE <<>>

\* if (filters.minRating) ... (PreschoolService.js:79-81).
byMinRating(list, minRating) ==
  IF minRating # 0
  THEN filter(list, [i \in DOMAIN list |-> matchesMinRating(list[i], minRating)])
  ELSE list

\* if (filters.ageRange) ... (PreschoolService.js:83-85).
byAgeRange(list, ageRange) ==
  IF ageRange # <<>>
  THEN filter(list, [i \in DOMAIN list |-> matchesAgeRange(list[i], ageRange)])
  ELSE list

\* if (filters.curriculum) ... (PreschoolService.js:87-91).
byCurriculum(list, curriculum) ==
  IF curriculum # <<>>
  THEN filter(list, [i \in DOMAIN list |-> matchesCurriculum(list[i], curriculum)])
  ELSE list

\* if (filters.priceRange) ... (PreschoolService.js:93-99).
byPriceRange(list, priceRange) ==
  IF priceRange # <<>>
  THEN filter(list, [i \in DOMAIN list |-> matchesPriceRange(list[i], priceRange)])
  ELSE list

\* The filter chain of searchPreschools (PreschoolService.js:66-99): each
\* step filters the list the previous step left.
searchFilter(all, query, filters) ==
  byPriceRange(
    byCurriculum(
      byAgeRange(
        byMinRating(byQuery(spread(all), query), filters.minRating),
        filters.ageRange),
      filters.curriculum),
    filters.priceRange)

\* Math.floor in place of Math.ceil.
totalPagesFloor(length, limit) ==
  IF limit > 0 THEN [kind |-> "finite", n |-> length \div limit]
  ELSE IF limit < 0 THEN [kind |-> "finite", n |-> 0 - (length \div (0 - limit))]
  ELSE IF length = 0 THEN [kind |-> "NaN", n |-> 0]
  ELSE [kind |-> "Infinity", n |-> 0]

\* Math.ceil(length / limit) (PreschoolService.js:110) as JavaScript
\* computes it: division by zero gives Infinity, 0 / 0 gives NaN.
totalPagesOf(length, limit) ==
  IF limit > 0 THEN [kind |-> "finite", n |-> (length + limit - 1) \div limit]
  ELSE IF limit < 0 THEN [kind |-> "finite", n |-> 0 - (length \div (0 - limit))]
  ELSE IF length = 0 THEN [kind |-> "NaN", n |-> 0]
  ELSE [kind |-> "Infinity", n |-> 0]

\* The pagination of searchPreschools (PreschoolService.js:101-111).
paginate(list, page, limit) ==
  LET startIndex == (page - 1) * limit
      endIndex   == page * limit
  IN  [results    |-> slice(list, startIndex, endIndex),
       totalCount |-> Len(list),
       page       |-> page,
       totalPages |-> totalPagesOf(Len(list), limit)]

\* searchPreschools up to its await (PreschoolService.js:53-57): the call
\* is parked on the 800 ms timer.
SearchCall ==
  /\ call = NoCall /\ outcome = NoOutcome
  /\ \E q \in Queries, mr \in MinRatings, ar \in AgeRanges, cu \in Curricula,
        pr \in PriceRanges, pg \in Pages, lim \in Limits :
       call' = [op |-> "search", query |-> q,
                filters |-> [minRating |-> mr, ageRange |-> ar,
                             curriculum |-> cu, priceRange |-> pr],
                page |-> pg, limit |-> lim]
  /\ UNCHANGED <<warehouse, recommendationService, filtered, outcome, kept,
                 favorites, saved, waiting, screens>>

\* searchPreschools after the timer (PreschoolService.js:59-111, 137-140).
SearchResume ==
  /\ call.op = "search"
  /\ IF ~recommendationService
     THEN /\ filtered' = <<>>
          /\ outcome' = [status |-> "rejected", request |-> call,
                         error |-> "RecommendationService not set"]
     ELSE /\ filtered' = searchFilter(getMockPreschools, call.query, call.filters)
          /\ outcome' = [status |-> "resolved", request |-> call,
                         value |-> paginate(filtered', call.page, call.limit)]
  /\ call' = NoCall
  /\ UNCHANGED <<warehouse, recommendationService, kept, favorites, saved,
                 waiting, screens>>

NextSearch == SetRecommendationService \/ SearchCall \/ SearchResume \/ Deliver

SpecSearch == Init /\ [][NextSearch]_vars

\* --------------------------------------------------------- recommendations
\* String.prototype.startsWith.
startsWith(s, t) == Len(t) <= Len(s) /\ SubSeq(s, 1, Len(t)) = t

\* The default of the limit parameter of getRecommendations (part_003:11)
\* and of getFeaturedPreschools (part_003:88).
DefaultRecommendLimit == 5
DefaultFeaturedLimit == 3

\* preferences.location: '', 'palo', '94025', 'CA'.
Locations == {<<>>, <<112, 97, 108, 111>>, <<57, 52, 48, 50, 53>>, <<67, 65>>}
RecommendLimits == Limits \cup {DefaultRecommendLimit}
FeaturedLimits == Limits \cup {DefaultFeaturedLimit}

\* The location callback (part_003:26-30) reads p.city and p.zip_code
\* unguarded: evaluated left to right, it raises a TypeError on the first
\* operand that is undefined.
locationThrows(p, location) ==
  /\ ~includes(toLowerCase(p.address), toLowerCase(location))
  /\ \/ ~has(p, "city")
     \/ /\ ~includes(toLowerCase(p.city), toLowerCase(location))
        /\ ~has(p, "zip_code")

\* The value of the location callback (part_003:26-30) when it returns.
matchesLocation(p, location) ==
  \/ includes(toLowerCase(p.address), toLowerCase(location))
  \/ (has(p, "city") /\ includes(toLowerCase(p.city), toLowerCase(location)))
  \/ (has(p, "zip_code") /\ includes(p.zip_code, location))

\* if (preferences.location) ... (part_003:24-31), when no callback raises.
byLocation(list, location) ==
  IF location # <<>>
  THEN filter(list, [i \in DOMAIN list |-> matchesLocation(list[i], location)])
  ELSE list

\* The filters of getRecommendations (part_003:21-43), when none raises.
recommendFilter(all, preferences) ==
  byCurriculum(
    byMinRating(byLocation(spread(all), preferences.location),
                preferences.minRating),
    preferences.curriculum)

\* The location filter raises when its callback does on some record.
recommendFilterThrows(all, preferences) ==
  /\ preferences.location # <<>>
  /\ \E i \in DOMAIN all : locationThrows(all[i], preferences.location)

\* A comparator by rating that answers 1 on a tie.
byRatingDescTiesSwapped(list) ==
  sort(list, [i \in DOMAIN list |->
                [j \in DOMAIN list |->
                   IF list[j].rating >= list[i].rating THEN 1 ELSE -1]])

\* filtered.sort((a, b) => b.rating - a.rating) (part_003:46-49).
byRatingDesc(list) ==
  sort(list, [i \in DOMAIN list |->
                [j \in DOMAIN list |-> list[j].rating - list[i].rating]])

\* A sort whose receiver is the array the data module holds.
sortedInPlace(held, sorted) == IF Len(held) > 0 THEN sorted ELSE held

\* The array the data module holds, after a handler has sorted.
\* Array.prototype.sort sorts its receiver in place, and getAllPreschools
\* hands out the module's own array (part_002:1390); but the receiver is a
\* copy, [...preschools] (part_003:21, 98), so the array held keeps its
\* order.  `sorted` is what the sort leaves in its receiver.
sortedCopy(held, sorted) == held

\* A match reason: a fixed text, or a template with the text put into it.
Reason(text, arg) == [text |-> text, arg |-> arg]

\* generateMatchReasons with the review rule ahead of the curriculum rule and
\* a review count of 50 counted as popular.
generateMatchReasonsReviewsFirst(preschool, preferences) ==
  LET rating ==
        IF preschool.rating >= 45 THEN <<Reason("Top-rated preschool", <<>>)>>
        ELSE IF preschool.rating >= 40
             THEN <<Reason("Highly rated by parents", <<>>)>>
             ELSE <<>>
      curriculum ==
        IF /\ preferences.curriculum # <<>>
           /\ truthy(preschool, "curriculum")
           /\ includes(toLowerCase(preschool.curriculum),
                       toLowerCase(preferences.curriculum))
        THEN <<Reason("Offers {} curriculum", preschool.curriculum)>>
        ELSE <<>>
      reviews ==
        IF preschool.reviewCount >= 50
        THEN <<Reason("Popular with many positive reviews", <<>>)>>
        ELSE <<>>
      cspp ==
        IF \/ (has(preschool, "program_type")
                 /\ preschool.program_type = <<67, 83, 80, 80>>)
           \/ startsWith(preschool.id, <<67, 83, 80, 80, 95>>)
        THEN <<Reason("California State Preschool Program", <<>>)>>
        ELSE <<>>
      feature ==
        IF has(preschool, "features") /\ Len(preschool.features) > 0
        THEN <<Reason("Offers {}", preschool.features[1])>>
        ELSE <<>>
      reasons == rating \o reviews \o curriculum \o cspp \o feature
  IN  IF Len(reasons) = 0
      THEN <<Reason("Matches your preferences", <<>>)>>
      ELSE reasons

\* generateMatchReasons with the fallback reason appended to a list of one
\* reason as well.
generateMatchReasonsWithFallback(preschool, preferences) ==
  LET rating ==
        IF preschool.rating >= 45 THEN <<Reason("Top-rated preschool", <<>>)>>
        ELSE IF preschool.rating >= 40
             THEN <<Reason("Highly rated by parents", <<>>)>>
             ELSE <<>>
      curriculum ==
        IF /\ preferences.curriculum # <<>>
           /\ truthy(preschool, "curriculum")
           /\ includes(toLowerCase(preschool.curriculum),
                       toLowerCase(preferences.curriculum))
        THEN <<Reason("Offers {} curriculum", preschool.curriculum)>>
        ELSE <<>>
      reviews ==
        IF preschool.reviewCount > 50
        THEN <<Reason("Popular with many positive reviews", <<>>)>>
        ELSE <<>>
      cspp ==
        IF \/ (has(preschool, "program_type")
                 /\ preschool.program_type = <<67, 83, 80, 80>>)
           \/ startsWith(preschool.id, <<67, 83, 80, 80, 95>>)
        THEN <<Reason("California State Preschool Program", <<>>)>>
        ELSE <<>>
      feature ==
        IF has(preschool, "features") /\ Len(preschool.features) > 0
        THEN <<Reason("Offers {}", preschool.features[1])>>
        ELSE <<>>
      reasons == rating \o curriculum \o reviews \o cspp \o feature
  IN  IF Len(reasons) = 0
      THEN <<Reason("Matches your preferences", <<>>)>>
      ELSE IF Len(reasons) = 1
           THEN Append(reasons, Reason("Matches your preferences", <<>>))
           ELSE reasons

\* generateMatchReasons giving the fallback reason alone while a service call
\* is waiting on its timer.
generateMatchReasonsWhileIdle(preschool, preferences) ==
  LET rating ==
        IF preschool.rating >= 45 THEN <<Reason("Top-rated preschool", <<>>)>>
        ELSE IF preschool.rating >= 40
             THEN <<Reason("Highly rated by parents", <<>>)>>
             ELSE <<>>
      curriculum ==
        IF /\ preferences.curriculum # <<>>
           /\ truthy(preschool, "curriculum")
           /\ includes(toLowerCase(preschool.curriculum),
                       toLowerCase(preferences.curriculum))
        THEN <<Reason("Offers {} curriculum", preschool.curriculum)>>
        ELSE <<>>
      reviews ==
        IF preschool.reviewCount > 50
        THEN <<Reason("Popular with many positive reviews", <<>>)>>
        ELSE <<>>
      cspp ==
        IF \/ (has(preschool, "program_type")
                 /\ preschool.program_type = <<67, 83, 80, 80>>)
           \/ startsWith(preschool.id, <<67, 83, 80, 80, 95>>)
        THEN <<Reason("California State Preschool Program", <<>>)>>
        ELSE <<>>
      feature ==
        IF has(preschool, "features") /\ Len(preschool.features) > 0
        THEN <<Reason("Offers {}", preschool.features[1])>>
        ELSE <<>>
      reasons == rating \o curriculum \o reviews \o cspp \o feature
  IN  IF Len(reasons) = 0 \/ call # NoCall
      THEN <<Reason("Matches your preferences", <<>>)>>
      ELSE reasons

\* generateMatchReasons (part_003:159-197).
generateMatchReasons(preschool, preferences) ==
  LET rating ==
        IF preschool.rating >= 45 THEN <<Reason("Top-rated preschool", <<>>)>>
        ELSE IF preschool.rating >= 40
             THEN <<Reason("Highly rated by parents", <<>>)>>
             ELSE <<>>
      curriculum ==
        IF /\ preferences.curriculum # <<>>
           /\ truthy(preschool, "curriculum")
           /\ includes(toLowerCase(preschool.curriculum),
                       toLowerCase(preferences.curriculum))
        THEN <<Reason("Offers {} curriculum", preschool.curriculum)>>
        ELSE <<>>
      reviews ==
        IF preschool.reviewCount > 50
        THEN <<Reason("Popular with many positive reviews", <<>>)>>
        ELSE <<>>
      cspp ==
        IF \/ (has(preschool, "program_type")
                 /\ preschool.program_type = <<67, 83, 80, 80>>)
           \/ startsWith(preschool.id, <<67, 83, 80, 80, 95>>)
        THEN <<Reason("California State Preschool Program", <<>>)>>
        ELSE <<>>
      feature ==
        IF has(preschool, "features") /\ Len(preschool.features) > 0
        THEN <<Reason("Offers {}", preschool.features[1])>>
        ELSE <<>>
      reasons == rating \o curriculum \o reviews \o cspp \o feature
  IN  IF Len(reasons) = 0
      THEN <<Reason("Matches your preferences", <<>>)>>
      ELSE reasons

\* The record with its match reasons and a distance of 0 as well.
withMatchReasonsAndDistance(preschool, preferences) ==
  [f \in DOMAIN preschool \cup {"matchReasons", "distance"} |->
     CASE f = "matchReasons" -> generateMatchReasons(preschool, preferences)
       [] f = "distance" -> 0
       [] OTHER -> preschool[f]]

\* { ...preschool, matchReasons: ... } (part_003:52-55).
withMatchReasons(preschool, preferences) ==
  [f \in DOMAIN preschool \cup {"matchReasons"} |->
     IF f = "matchReasons" THEN generateMatchReasons(preschool, preferences)
     ELSE preschool[f]]

\* getRecommendations up to its await (part_003:11-15): parked on the
\* 1500 ms timer.
RecommendCall ==
  /\ call = NoCall /\ outcome = NoOutcome
  /\ \E loc \in Locations, mr \in MinRatings, cu \in Curricula,
        lim \in RecommendLimits :
       call' = [op |-> "recommend",
                preferences |-> [location |-> loc, minRating |-> mr,
                                 curriculum |-> cu],
                limit |-> lim]
  /\ UNCHANGED <<warehouse, recommendationService, filtered, outcome, kept,
                 favorites, saved, waiting, screens>>

\* getRecommendations after the timer (part_003:17-57, 82-85).
RecommendResume ==
  /\ call.op = "recommend"
  /\ IF recommendFilterThrows(getMockPreschools, call.preferences)
     THEN /\ filtered' = <<>>
          /\ outcome' = [status |-> "rejected", request |-> call,
                         error |-> "TypeError"]
     ELSE /\ filtered' = recommendFilter(getMockPreschools, call.preferences)
          /\ outcome' =
               [status |-> "resolved", request |-> call,
                value |->
                  LET top == slice(byRatingDesc(filtered'), 0, call.limit)
                  IN  [i \in DOMAIN top |->
                         withMatchReasons(top[i], call.preferences)]]
  /\ warehouse' =
       IF recommendFilterThrows(getMockPreschools, call.preferences)
       THEN warehouse
       ELSE sortedCopy(getAllPreschools, byRatingDesc(getAllPreschools))
  /\ call' = NoCall
  /\ UNCHANGED <<recommendationService, kept, favorites, saved, waiting,
                 screens>>

NextRecommend == RecommendCall \/ RecommendResume \/ Deliver

SpecRecommend == Init /\ [][NextRecommend]_vars

\* ---------------------------------------------------------------- featured
\* Math.log (part_003:100-101) in millionths, rounded down, at the
\* arguments reviewCount + 1 the records of the model give it.  Scores of
\* two records of the model are equal here exactly when they are equal as
\* IEEE doubles: on equal (rating, reviewCount) and on reviewCount 0.
MathLog(x) ==
  CASE x = 1 -> 0
    [] x = 21 -> 3044522
    [] x = 73 -> 4290459
    [] x = 86 -> 4454347
    [] x = 96 -> 4564348
    [] x = 129 -> 4859812
    [] x = 157 -> 5056245
    [] x = 211 -> 5351858

\* a.rating * Math.log(a.reviewCount + 1) (part_003:100-101), in tenths of
\* millionths.
score(p) == p.rating * MathLog(p.reviewCount + 1)

\* A ranking by rating alone.
byPopularityRatingOnly(list) ==
  sort(list, [i \in DOMAIN list |->
                [j \in DOMAIN list |-> list[j].rating - list[i].rating]])

\* [...preschools].sort((a, b) => bScore - aScore) (part_003:98-103).
byPopularityDesc(list) ==
  LET copy == spread(list)
  IN  sort(copy, [i \in DOMAIN copy |->
                    [j \in DOMAIN copy |-> score(copy[j]) - score(copy[i])]])

\* getFeaturedPreschools up to its await (part_003:88-92): parked on the
\* 700 ms timer.
FeaturedCall ==
  /\ call = NoCall /\ outcome = NoOutcome
  /\ \E lim \in FeaturedLimits : call' = [op |-> "featured", limit |-> lim]
  /\ UNCHANGED <<warehouse, recommendationService, filtered, outcome, kept,
                 favorites, saved, waiting, screens>>

\* getFeaturedPreschools after the timer (part_003:94-105).
FeaturedResume ==
  /\ call.op = "featured"
  /\ outcome' = [status |-> "resolved", request |-> call,
                 value |-> slice(byPopularityDesc(getMockPreschools), 0,
                                 call.limit)]
  /\ warehouse' =
       sortedCopy(getAllPreschools, byPopularityDesc(getAllPreschools))
  /\ call' = NoCall
  /\ UNCHANGED <<recommendationService, filtered, kept, favorites, saved,
                 waiting, screens>>

NextFeatured == FeaturedCall \/ FeaturedResume \/ Deliver

SpecFeatured == Init /\ [][NextFeatured]_vars

\* ------------------------------------------------------------- arithmetic
\* calculateDistance (part_002:1459-1471) works on IEEE doubles.  The model
\* computes the same formula on binary floating-point numbers m * 2^e whose
\* significand m has MantissaBits bits: every operation rounds its exact
\* result to the nearest such number, as a double operation does with 53
\* bits.  With 15 bits every product of two significands fits a 32-bit
\* integer, and the distances between the model's valid coordinates agree
\* with the doubles to 1 part in 2000 (to 1 part in 10000 below 30 miles).
MantissaBits == 15

Pow2(n) == 2^n

Abs(x) == IF x < 0 THEN -x ELSE x

\* The number of binary digits of a positive integer below 2^31.
BitLength(a) == CHOOSE k \in 1..31 : a \div Pow2(k - 1) = 1

Float(m, e) == [m |-> m, e |-> e]
Zero == Float(0, 0)
\* NaN is the one pair with significand 0 that no rounding produces.
NaN == Float(0, 1)
IsNaN(x) == x = NaN

\* m * 2^e rounded to MantissaBits significant bits, halves away from zero.
Normalize(m, e) ==
  IF m = 0 THEN Zero
  ELSE
    LET a == Abs(m)
        k == BitLength(a)
        s == IF m < 0 THEN -1 ELSE 1
    IN  IF k > MantissaBits
        THEN LET sh == k - MantissaBits
                 q  == (a + Pow2(sh - 1)) \div Pow2(sh)
             IN  IF q = Pow2(MantissaBits)
                 THEN Float(s * Pow2(MantissaBits - 1), e + sh + 1)
                 ELSE Float(s * q, e + sh)
        ELSE Float(m * Pow2(MantissaBits - k), e - (MantissaBits - k))

\* An integer as a number.
FromInt(n) == Normalize(n, 0)

\* -x, x * y, x / y (y not zero), x + y, x - y, x < y.
Neg(x) == IF IsNaN(x) THEN NaN ELSE Float(-x.m, x.e)

Times(x, y) ==
  IF IsNaN(x) \/ IsNaN(y) THEN NaN
  ELSE Normalize(x.m * y.m, x.e + y.e)

Over(x, y) ==
  IF IsNaN(x) \/ IsNaN(y) THEN NaN
  ELSE LET s == IF (x.m < 0) = (y.m < 0) THEN 1 ELSE -1
           q == (Abs(x.m) * Pow2(MantissaBits)) \div Abs(y.m)
       IN  Normalize(s * q, x.e - y.e - MantissaBits)

Plus(x, y) ==
  IF IsNaN(x) \/ IsNaN(y) THEN NaN
  ELSE IF x.m = 0 THEN y
  ELSE IF y.m = 0 THEN x
  ELSE LET hi == IF x.e >= y.e THEN x ELSE y
           lo == IF x.e >= y.e THEN y ELSE x
           d  == hi.e - lo.e
       IN  IF d > MantissaBits THEN hi
           ELSE Normalize(hi.m * Pow2(d) + lo.m, lo.e)

Minus(x, y) == Plus(x, Neg(y))

Less(x, y) == ~IsNaN(x) /\ ~IsNaN(y) /\ Minus(x, y).m < 0

\* The number x * scale rounded to the nearest integer, halves up, for
\* 0 <= x < 2^15 and scale <= 1000.
Round(x, scale) ==
  LET n == x.m * scale
  IN  IF x.e >= 0 THEN n * Pow2(x.e)
      ELSE IF -x.e > 29 THEN 0
      ELSE (n + Pow2(-x.e - 1)) \div Pow2(-x.e)

\* The largest r below 2^(top + 1) with r * r <= n, found bit by bit from
\* 2^top down: SqrtStep adds the bit to r when the square still fits.
SqrtStep(r, n, bit) == IF (r + Pow2(bit)) * (r + Pow2(bit)) <= n
                       THEN r + Pow2(bit) ELSE r

IntegerSqrt(n, top) ==
  LET root[bit \in 0..(top + 1)] ==
        IF bit = top + 1 THEN 0 ELSE SqrtStep(root[bit + 1], n, bit)
  IN  root[0]

\* Math.sqrt (part_002:1468): NaN below zero.
MathSqrt(x) ==
  IF IsNaN(x) \/ x.m < 0 THEN NaN
  ELSE IF x.m = 0 THEN Zero
  ELSE LET odd == x.e % 2 = 1
           m   == IF odd THEN 2 * x.m ELSE x.m
           e   == IF odd THEN x.e - 1 ELSE x.e
       IN  Normalize(IntegerSqrt(m * Pow2(MantissaBits - 1),
                                 MantissaBits - 1),
                     (e - (MantissaBits - 1)) \div 2)

\* The terms of a Taylor series kept by MathSin, MathCos and Arctangent
\* after the first.
SeriesTerms == 12

\* 1 - x2 / (k (k+1)) (1 - x2 / ((k+2) (k+3)) (1 - ...)), the Taylor
\* series of sin x / x (k = 2) and of cos x (k = 1) in x2 = x * x, in
\* Horner form.
TaylorSeries(x2, k) ==
  LET tail[i \in 0..SeriesTerms] ==
        IF i = SeriesTerms THEN FromInt(1)
        ELSE Minus(FromInt(1),
                   Times(Over(x2, FromInt((k + 2 * i) * (k + 2 * i + 1))),
                         tail[i + 1]))
  IN  tail[0]

\* Math.sin and Math.cos (part_002:1463-1466) for |x| <= pi.
MathSin(x) == Times(x, TaylorSeries(Times(x, x), 2))
MathCos(x) == TaylorSeries(Times(x, x), 1)

\* Math.PI: 3.14159 in 15 bits.
MathPI == Normalize(3294199, -20)

\* 1 - t2 / 3 + t2^2 / 5 - ..., the Taylor series of arctan t / t in
\* t2 = t * t, in Horner form.
ArctangentSeries(t2) ==
  LET tail[i \in 0..SeriesTerms] ==
        IF i = SeriesTerms THEN Over(FromInt(1), FromInt(2 * i + 1))
        ELSE Minus(Over(FromInt(1), FromInt(2 * i + 1)),
                   Times(t2, tail[i + 1]))
  IN  tail[0]

\* arctan t for 0 <= t <= 1: the series on |t| <= tan(pi/8) = 0.41421,
\* and arctan t = pi/4 + arctan((t - 1) / (t + 1)) above.
Arctangent(t) ==
  IF Less(Normalize(434334, -20), t)
  THEN LET u == Over(Minus(t, FromInt(1)), Plus(t, FromInt(1)))
       IN  Plus(Over(MathPI, FromInt(4)),
                Times(u, ArctangentSeries(Times(u, u))))
  ELSE Times(t, ArctangentSeries(Times(t, t)))

\* Math.atan2(y, x) (part_002:1468) on the arguments calculateDistance
\* gives it: two square roots, so y >= 0 and x >= 0, or NaN.
MathAtan2(y, x) ==
  IF IsNaN(y) \/ IsNaN(x) THEN NaN
  ELSE IF y.m = 0 THEN Zero
  ELSE IF x.m = 0 THEN Over(MathPI, FromInt(2))
  ELSE IF Less(x, y)
       THEN Minus(Over(MathPI, FromInt(2)), Arctangent(Over(x, y)))
       ELSE Arctangent(Over(y, x))

\* ---------------------------------------------------------------- distance
\* A latitude or longitude is kept in millionths of a degree, the
\* resolution of the coordinates of the source (37.7749, -122.4194 at
\* part_002:169), so that lat2 - lat1 is exact as it is (to 1e-14) in doubles.
Degrees(u) == Over(FromInt(u), FromInt(1000000))

\* toRadians (part_002:1479-1481).
toRadians(degrees) == Over(Times(degrees, MathPI), FromInt(180))

\* Earth's radius in miles, 3958.8 (part_002:1460).
R == Over(FromInt(39588), FromInt(10))

\* The Haversine formula with the cosine of the first latitude squared in
\* place of the product of the two cosines.
calculateDistanceOneLatitude(lat1, lon1, lat2, lon2) ==
  LET dLat == toRadians(Degrees(lat2 - lat1))
      dLon == toRadians(Degrees(lon2 - lon1))
      sinLat == MathSin(Over(dLat, FromInt(2)))
      sinLon == MathSin(Over(dLon, FromInt(2)))
      a == Plus(Times(sinLat, sinLat),
                Times(Times(Times(MathCos(toRadians(Degrees(lat1))),
                                  MathCos(toRadians(Degrees(lat1)))),
                            sinLon),
                      sinLon))
      c == Times(FromInt(2),
                 MathAtan2(MathSqrt(a), MathSqrt(Minus(FromInt(1), a))))
  IN  Times(R, c)

\* calculateDistance (part_002:1459-1471), in miles.  When rounding takes a
\* above 1, as it does for some antipodal pairs, Math.sqrt(1 - a) and with it
\* the result are NaN.
calculateDistance(lat1, lon1, lat2, lon2) ==
  LET dLat == toRadians(Degrees(lat2 - lat1))
      dLon == toRadians(Degrees(lon2 - lon1))
      sinLat == MathSin(Over(dLat, FromInt(2)))
      sinLon == MathSin(Over(dLon, FromInt(2)))
      a == Plus(Times(sinLat, sinLat),
                Times(Times(Times(MathCos(toRadians(Degrees(lat1))),
                                  MathCos(toRadians(Degrees(lat2)))),
                            sinLon),
                      sinLon))
      c == Times(FromInt(2),
                 MathAtan2(MathSqrt(a), MathSqrt(Minus(FromInt(1), a))))
  IN  Times(R, c)

\* ------------------------------------------------------------------ nearby
\* The coordinates of the model, in millionths of a degree.  The first is
\* the origin HomeScreen passes (part_002:169); the second has a latitude
\* outside [-90, 90].
HomeScreenOrigin == [latitude |-> 37774900, longitude |-> -122419400]
Origins == {HomeScreenOrigin, [latitude |-> 91000000, longitude |-> -122419400]}

\* Where the sample records of the nearby flow lie: 0.691 and 0.693 miles
\* from the HomeScreen origin (both 0.7 to one decimal), 5.030 miles from
\* it (5.0 to one decimal), and on the equator, 2610 miles from it.
Located ==
  <<[latitude |-> 37784900, longitude |-> -122419400],
    [latitude |-> 37784900, longitude |-> -122418400],
    [latitude |-> 37847700, longitude |-> -122419400],
    [latitude |-> 0, longitude |-> -122419400]>>

\* Further coordinates calculateDistance is applied to: (0, 0), the north
\* pole at longitude 180, Sydney, Palo Alto, a longitude outside
\* [-180, 180], and the antipodal pair (46.22, -119), (-46.22, 61), for
\* which a comes out above 1 here as it does in doubles (1 + 2^-52).
Coordinates ==
  Origins \cup {Located[i] : i \in DOMAIN Located} \cup
  {[latitude |-> 0, longitude |-> 0],
   [latitude |-> 90000000, longitude |-> 180000000],
   [latitude |-> -33868800, longitude |-> 151209300],
   [latitude |-> 37441900, longitude |-> -122143000],
   [latitude |-> 37774900, longitude |-> 181000000],
   [latitude |-> 46220000, longitude |-> -119000000],
   [latitude |-> -46220000, longitude |-> 61000000]}

\* calculateDistance on every pair of coordinates of the model, computed
\* once.
Distances ==
  [from \in Coordinates, to \in Coordinates |->
     calculateDistance(from.latitude, from.longitude,
                       to.latitude, to.longitude)]

\* The call calculateDistance(lat1, lon1, lat2, lon2) (part_002:1432-1435).
distanceBetween(lat1, lon1, lat2, lon2) ==
  Distances[[latitude |-> lat1, longitude |-> lon1],
            [latitude |-> lat2, longitude |-> lon2]]

\* parseFloat(distance.toFixed(1)) (part_002:1439), in tenths of a mile.
\* NaN reads back as NaN, kept as NaNTenths: no distance is negative.
NaNTenths == -1
toFixed1(miles) == IF IsNaN(miles) THEN NaNTenths ELSE Round(miles, 10)

\* JavaScript truthiness of a number-valued property: present and not 0.
truthyNumber(p, f) == has(p, f) /\ p[f] # 0

\* { ...p, distance: ... } (part_002:1437-1440).
withDistance(p, tenths) ==
  [f \in DOMAIN p \cup {"distance"} |->
     IF f = "distance" THEN tenths ELSE p[f]]

\* .filter(p => p.latitude && p.longitude) (part_002:1429).
withCoordinates(preschools) ==
  filter(preschools,
         [i \in DOMAIN preschools |->
            truthyNumber(preschools[i], "latitude")
            /\ truthyNumber(preschools[i], "longitude")])

\* .map(p => ({ ...p, distance })) (part_002:1430-1441).  parseFloat of a
\* number is the number.
withDistances(preschools, latitude, longitude) ==
  [i \in DOMAIN preschools |->
     withDistance(preschools[i],
                  toFixed1(distanceBetween(latitude, longitude,
                                           preschools[i].latitude,
                                           preschools[i].longitude)))]

\* .filter(p => p.distance <= maxDistance) (part_002:1442): false on NaN.
withinDistance(preschools, maxDistance) ==
  filter(preschools,
         [i \in DOMAIN preschools |->
            preschools[i].distance # NaNTenths
            /\ preschools[i].distance <= maxDistance])

\* .sort((a, b) => a.distance - b.distance) (part_002:1443).
byDistanceAsc(preschools) ==
  sort(preschools,
       [i \in DOMAIN preschools |->
          [j \in DOMAIN preschools |->
             preschools[i].distance - preschools[j].distance]])

\* getPreschoolsNearLocation (part_002:1423-1448); maxDistance in tenths of
\* a mile.  No step of the chain throws, so the catch is never entered.
getPreschoolsNearLocation(latitude, longitude, maxDistance) ==
  byDistanceAsc(
    withinDistance(
      withDistances(withCoordinates(getAllPreschools), latitude, longitude),
      maxDistance))

\* The default radius (5 miles) and limit of getNearbyPreschools.
DefaultRadius == 50
DefaultNearbyLimit == 5

\* The values a caller passes: a radius in tenths of a mile (-1, 0, 1, 5
\* and 3000 miles) and a limit.
Radii == {-10, 0, 10, DefaultRadius, 30000}
NearbyLimits == Limits \cup {DefaultNearbyLimit}

\* getNearbyPreschools up to its await (part_003:125-129): parked on the
\* 1000 ms timer.
NearbyCall ==
  /\ call = NoCall /\ outcome = NoOutcome
  /\ \E origin \in Origins, radius \in Radii, lim \in NearbyLimits :
       call' = [op |-> "nearby", latitude |-> origin.latitude,
                longitude |-> origin.longitude, radius |-> radius,
                limit |-> lim]
  /\ UNCHANGED <<warehouse, recommendationService, filtered, outcome, kept,
                 favorites, saved, waiting, screens>>

\* getNearbyPreschools after the timer (part_003:131-133); `filtered` holds
\* the handler's local `preschools`.
NearbyResume ==
  /\ call.op = "nearby"
  /\ filtered' = getPreschoolsNearLocation(call.latitude, call.longitude,
                                           call.radius)
  /\ outcome' = [status |-> "resolved", request |-> call,
                 value |-> slice(filtered', 0, call.limit)]
  /\ call' = NoCall
  /\ UNCHANGED <<warehouse, recommendationService, kept, favorites, saved,
                 waiting, screens>>

NextNearby == NearbyCall \/ NearbyResume \/ Deliver

\* A warehouse of located sample records: the second sample shape at one of
\* the coordinates of Located, or (0) without coordinates.
LocatedRecord(k, i) ==
  IF k = 0 THEN WarehouseRecord(2, i)
  ELSE [f \in DOMAIN WarehouseRecord(2, i) \cup {"latitude", "longitude"} |->
          IF f \in {"latitude", "longitude"} THEN Located[k][f]
          ELSE WarehouseRecord(2, i)[f]]

LocatedLists ==
  UNION {[1..n -> 0..Len(Located)] : n \in 0..MaxRecords}

InitLocated ==
  /\ warehouse \in {[i \in DOMAIN l |-> LocatedRecord(l[i], i)] :
                      l \in LocatedLists}
  /\ recommendationService = FALSE
  /\ call = NoCall
  /\ filtered = <<>>
  /\ outcome = NoOutcome
  /\ kept = NoOutcome
  /\ favorites = <<>>
  /\ saved = {}
  /\ waiting = {}
  /\ detailScreen = Unmounted
  /\ featuredPreschools = Unmounted
  /\ homeScreen = Unmounted

SpecNearby == InitLocated /\ [][NextNearby]_vars

\* calculateDistance applied to a pair of coordinates.
DistanceCall ==
  /\ call = NoCall /\ outcome = NoOutcome
  /\ \E from \in Coordinates, to \in Coordinates :
       outcome' = [status |-> "resolved",
                   request |-> [op |-> "distance", from |-> from, to |-> to],
                   value |-> distanceBetween(from.latitude, from.longitude,
                                             to.latitude, to.longitude)]
  /\ UNCHANGED <<warehouse, recommendationService, call, filtered, kept,
                 favorites, saved, waiting, screens>>

NextDistance == DistanceCall \/ Deliver

SpecDistance == Init /\ [][NextDistance]_vars

\* ------------------------------------------------------------- list flows
\* The three flows of RecommendationService that return a ranked list.
NextLists ==
  \/ RecommendCall \/ RecommendResume
  \/ FeaturedCall \/ FeaturedResume
  \/ NearbyCall \/ NearbyResume
  \/ Deliver

SpecLists == Init /\ [][NextLists]_vars

\* The four flows that return records: search, recommend, featured, nearby.
NextFlows == NextSearch \/ NextLists

SpecFlows == Init /\ [][NextFlows]_vars

\* ----------------------------------------------------------- match reasons
\* Values of the properties generateMatchReasons reads.  An optional property
\* is a pair <<present, value>>.
ReasonIds == {<<119, 49>>, <<67, 83, 80, 80, 95, 49>>}         \* 'w1', 'CSPP_1'
ReasonRatings == {39, 40, 44, 45, 49}
ReasonReviewCounts == {50, 51, 60}
ReasonCurricula ==
  {<<FALSE, <<>>>>, <<TRUE, <<>>>>, <<TRUE, <<80, 108, 97, 121>>>>}  \* 'Play'
ReasonProgramTypes ==
  {<<FALSE, <<>>>>, <<TRUE, <<67, 83, 80, 80>>>>,              \* 'CSPP'
   <<TRUE, <<99, 115, 112, 112>>>>}                            \* 'cspp'
\* [], ['Organic meals'], ['Pool', 'Art']
ReasonFeatures ==
  {<<FALSE, <<>>>>, <<TRUE, <<>>>>,
   <<TRUE, <<<<79, 114, 103, 97, 110, 105, 99, 32, 109, 101, 97, 108, 115>>>>>>,
   <<TRUE, <<<<80, 111, 111, 108>>, <<65, 114, 116>>>>>>}
\* preferences.curriculum: '', 'PLAY', 'art'
ReasonPreferences ==
  {[curriculum |-> cu] : cu \in Curricula \cup {<<97, 114, 116>>}}

\* A record with the given properties; the optional ones only when present.
ReasonRecord(id, rating, reviewCount, curriculum, program_type, features) ==
  [f \in {"id", "rating", "reviewCount"}
            \cup (IF curriculum[1] THEN {"curriculum"} ELSE {})
            \cup (IF program_type[1] THEN {"program_type"} ELSE {})
            \cup (IF features[1] THEN {"features"} ELSE {}) |->
     CASE f = "id" -> id
       [] f = "rating" -> rating
       [] f = "reviewCount" -> reviewCount
       [] f = "curriculum" -> curriculum[2]
       [] f = "program_type" -> program_type[2]
       [] f = "features" -> features[2]]

ReasonRecords ==
  {ReasonRecord(id, rating, reviewCount, curriculum, program_type, features) :
     id \in ReasonIds, rating \in ReasonRatings,
     reviewCount \in ReasonReviewCounts, curriculum \in ReasonCurricula,
     program_type \in ReasonProgramTypes, features \in ReasonFeatures}

\* A call of generateMatchReasons (part_003:159-197) on one of the given
\* records: synchronous, it returns at once, whether or not a service call
\* is waiting on its timer.
MatchReasonsOf(records) ==
  /\ outcome = NoOutcome
  /\ \E preschool \in records, preferences \in ReasonPreferences :
       outcome' = [status |-> "resolved",
                   request |-> [op |-> "matchReasons", preschool |-> preschool,
                                preferences |-> preferences],
                   value |-> generateMatchReasons(preschool, preferences)]
  /\ UNCHANGED <<warehouse, recommendationService, call, filtered, kept,
                 favorites, saved, waiting, screens>>

MatchReasonsCall == MatchReasonsOf(ReasonRecords)

NextReasons == MatchReasonsCall \/ Deliver

SpecReasons == Init /\ [][NextReasons]_vars

\* generateMatchReasons on the first record of the current record set, as
\* getRecommendations calls it (part_003:54).
MatchReasonsOnRecordSet == MatchReasonsOf({getMockPreschools[1]})

\* The caller holds on to the array generateMatchReasons returned
\* (part_003:196) while no service call was waiting.  Every later call is
\* compared with it, so that two calls at any two points are compared
\* through the one made with nothing waiting.
KeepReasons ==
  /\ call = NoCall
  /\ outcome.status = "resolved" /\ outcome.request.op = "matchReasons"
  /\ kept' = outcome
  /\ UNCHANGED <<warehouse, recommendationService, call, filtered, outcome,
                 favorites, saved, waiting, screens>>

\* Calls of generateMatchReasons among the calls of the list flows.
NextRepeated == NextLists \/ MatchReasonsOnRecordSet \/ KeepReasons

SpecRepeated == Init /\ [][NextRepeated]_vars

\* ---------------------------------------------------------------- details
\* Identifiers a caller asks for: 'w1', 'w2', 'CSPP_1', 'p1', 'p6', and 'x9',
\* which no record carries.
DetailIds ==
  {<<119, 49>>, <<119, 50>>, <<67, 83, 80, 80, 95, 49>>, <<112, 49>>,
   <<112, 54>>, <<120, 57>>}

\* Array.prototype.find, by position: the position of the first element
\* whose test came out true, 0 when there is none (find gives undefined).
findIndex(s, test) ==
  IF \E i \in DOMAIN s : test[i]
  THEN CHOOSE i \in DOMAIN s : test[i] /\ \A j \in 1..(i - 1) : ~test[j]
  ELSE 0

\* A lookup that finds nothing unless the first record is the one asked for.
findFirstOnly(allPreschools, preschoolId) ==
  IF Len(allPreschools) > 0 /\ allPreschools[1].id = preschoolId THEN 1 ELSE 0

\* allPreschools.find(p => p.id === preschoolId) (PreschoolService.js:27):
\* the position of the record found, 0 for undefined.
findById(allPreschools, preschoolId) ==
  findIndex(allPreschools,
            [i \in DOMAIN allPreschools |-> allPreschools[i].id = preschoolId])

\* The service test made when the call was made instead of after the timer.
serviceMissingAtCall(parked) == ~parked.injected

\* !this.recommendationService, evaluated by the call `parked` when its
\* timer has fired (PreschoolService.js:22).
serviceMissing(parked) == ~recommendationService

\* getPreschoolDetails up to its await (PreschoolService.js:16-20): the call
\* is parked on the 1200 ms timer.  `injected` notes, for the observer only,
\* whether a recommendation service was set when the call was made.
DetailsCall ==
  /\ call = NoCall /\ outcome = NoOutcome
  /\ \E id \in DetailIds :
       call' = [op |-> "details", preschoolId |-> id,
                injected |-> recommendationService]
  /\ UNCHANGED <<warehouse, recommendationService, filtered, outcome, kept,
                 favorites, saved, waiting, screens>>

\* getPreschoolDetails after the timer (PreschoolService.js:22-33, 47-50).
DetailsResume ==
  /\ call.op = "details"
  /\ outcome' =
       IF serviceMissing(call)
       THEN [status |-> "rejected", request |-> call,
             error |-> "RecommendationService not set"]
       ELSE LET found == findById(getMockPreschools, call.preschoolId)
            IN  IF found = 0
                THEN [status |-> "rejected", request |-> call,
                      error |-> "not found"]
                ELSE [status |-> "resolved", request |-> call,
                      value |-> getMockPreschools[found]]
  /\ call' = NoCall
  /\ UNCHANGED <<warehouse, recommendationService, filtered, kept, favorites,
                 saved, waiting, screens>>

NextDetails ==
  SetRecommendationService \/ DetailsCall \/ DetailsResume \/ Deliver

SpecDetails == Init /\ [][NextDetails]_vars

\* The two flows of PreschoolService that wait for the injected service.
NextService == NextSearch \/ NextDetails

SpecService == Init /\ [][NextService]_vars

\* ----------------------------------------------------------- query flows
\* The five query flows: search, recommend, featured, nearby and the lookup
\* of one record.
NextQueries == NextFlows \/ NextDetails

SpecQueries == Init /\ [][NextQueries]_vars

\* -------------------------------------------------------------- favorites
\* The records whose id has been saved and not removed since.
favoritePreschoolsSaved(preschools) ==
  filter(preschools, [i \in DOMAIN preschools |-> preschools[i].id \in saved])

\* preschools.slice(0, 3) (PreschoolService.js:212).
favoritePreschools(preschools) == slice(preschools, 0, 3)

\* savePreschoolToFavorites (PreschoolService.js:143-153): logs and returns
\* true; nothing waits and this.favorites is not written.
SaveCall ==
  /\ outcome = NoOutcome
  /\ \E id \in DetailIds :
       /\ outcome' = [status |-> "resolved",
                      request |-> [op |-> "save", preschoolId |-> id],
                      value |-> TRUE]
       /\ saved' = saved \cup {id}
  /\ UNCHANGED <<warehouse, recommendationService, call, filtered, kept,
                 favorites, waiting, screens>>

\* removePreschoolFromFavorites (PreschoolService.js:176-186).
RemoveCall ==
  /\ outcome = NoOutcome
  /\ \E id \in DetailIds :
       /\ outcome' = [status |-> "resolved",
                      request |-> [op |-> "remove", preschoolId |-> id],
                      value |-> TRUE]
       /\ saved' = saved \ {id}
  /\ UNCHANGED <<warehouse, recommendationService, call, filtered, kept,
                 favorites, waiting, screens>>

\* getFavoritePreschools (PreschoolService.js:207-212, 226-229): with no
\* service injected, this.recommendationService.getMockPreschools raises.
FavoritesCall ==
  /\ outcome = NoOutcome
  /\ outcome' =
       IF ~recommendationService
       THEN [status |-> "rejected", request |-> [op |-> "favorites"],
             error |-> "TypeError"]
       ELSE [status |-> "resolved", request |-> [op |-> "favorites"],
             value |-> favoritePreschools(getMockPreschools)]
  /\ UNCHANGED <<warehouse, recommendationService, call, filtered, kept,
                 favorites, saved, waiting, screens>>

\* isFavorite (PreschoolService.js:232-236): Math.random() > 0.5.
IsFavoriteCall ==
  /\ outcome = NoOutcome
  /\ \E id \in DetailIds, random \in BOOLEAN :
       outcome' = [status |-> "resolved",
                   request |-> [op |-> "isFavorite", preschoolId |-> id],
                   value |-> random]
  /\ UNCHANGED <<warehouse, recommendationService, call, filtered, kept,
                 favorites, saved, waiting, screens>>

NextFavorites ==
  \/ SetRecommendationService
  \/ SaveCall \/ RemoveCall \/ FavoritesCall \/ IsFavoriteCall
  \/ Deliver

SpecFavorites == Init /\ [][NextFavorites]_vars

\* ------------------------------------------------------- concurrent calls
\* Most calls that wait on their timers besides the one in `call`.
MaxWaiting == 1

\* The requests made while other calls wait: one of each flow.
Overlapping(c) ==
  CASE c.op = "search" ->
         /\ c.query = <<>>
         /\ c.filters = [minRating |-> 0, ageRange |-> <<>>,
                         curriculum |-> <<>>, priceRange |-> <<>>]
         /\ c.page = 1
         /\ c.limit = 2
    [] c.op = "recommend" ->
         /\ c.preferences.location = <<>>
         /\ c.preferences.minRating = 0
         /\ c.preferences.curriculum = <<>>
         /\ c.limit = 2
    [] c.op = "featured" -> c.limit = 2
    [] c.op = "nearby" ->
         /\ c.latitude = HomeScreenOrigin.latitude
         /\ c.longitude = HomeScreenOrigin.longitude
         /\ c.radius = 10
         /\ c.limit = 2
    [] c.op = "details" -> c.preschoolId = <<119, 50>>

\* A call of one of the five flows, made whether or not others wait.
OverlappingCall ==
  /\ SearchCall \/ RecommendCall \/ FeaturedCall \/ NearbyCall \/ DetailsCall
  /\ Overlapping(call')

\* The caller does not await the call it has made (await new Promise(...
\* setTimeout ...), PreschoolService.js:20, 57; part_003:15, 92, 129): the
\* call keeps waiting and the caller goes on.
CallerGoesOn ==
  /\ call # NoCall
  /\ Cardinality(waiting) < MaxWaiting
  /\ waiting' = waiting \cup {call}
  /\ call' = NoCall
  /\ UNCHANGED <<warehouse, recommendationService, filtered, outcome, kept,
                 favorites, saved, screens>>

\* The timer of one of the waiting calls is the next to fire.
TimerIsNext ==
  /\ call = NoCall
  /\ \E c \in waiting :
       /\ call' = c
       /\ waiting' = waiting \ {c}
  /\ UNCHANGED <<warehouse, recommendationService, filtered, outcome, kept,
                 favorites, saved, screens>>

NextConcurrent ==
  \/ SetRecommendationService
  \/ OverlappingCall \/ CallerGoesOn \/ TimerIsNext
  \/ SearchResume \/ RecommendResume \/ FeaturedResume \/ NearbyResume
  \/ DetailsResume
  \/ Deliver

\* The record set the bundle was built with: records without coordinates,
\* or records 0.7 and 5.0 miles from the HomeScreen origin.
InitConcurrent ==
  \/ Init
  \/ /\ InitLocated
     /\ warehouse \in {[i \in DOMAIN l |-> LocatedRecord(l[i], i)] :
                         l \in UNION {[1..n -> {1, 3}] : n \in 1..MaxRecords}}

SpecConcurrent == InitConcurrent /\ [][NextConcurrent]_vars

\* The record set as it was loaded: the ids of the model's records end in
\* the position they were loaded at.
Loaded ==
  [i \in DOMAIN warehouse |->
     CHOOSE p \in {warehouse[j] : j \in DOMAIN warehouse} :
       p.id[Len(p.id)] = 48 + i]

\* getMockPreschools over a given record set (part_003:204-218).
mockPreschoolsOf(records) ==
  IF Len(records) > 0 THEN records ELSE MockFallback

\* The result of request r made alone to a service that has its
\* recommendation service, over a given record set: the same handler code
\* (PreschoolService.js:16-51, 53-141; part_003:11-157) with no other call
\* between its start and its end.
ResultAlone(r, records) ==
  CASE r.op = "search" ->
         [status |-> "resolved", request |-> r,
          value |-> paginate(searchFilter(mockPreschoolsOf(records), r.query,
                                          r.filters),
                             r.page, r.limit)]
    [] r.op = "recommend" ->
         IF recommendFilterThrows(mockPreschoolsOf(records), r.preferences)
         THEN [status |-> "rejected", request |-> r, error |-> "TypeError"]
         ELSE [status |-> "resolved", request |-> r,
               value |->
                 LET top == slice(byRatingDesc(
                                    recommendFilter(mockPreschoolsOf(records),
                                                    r.preferences)),
                                  0, r.limit)
                 IN  [i \in DOMAIN top |->
                        withMatchReasons(top[i], r.preferences)]]
    [] r.op = "featured" ->
         [status |-> "resolved", request |-> r,
          value |-> slice(byPopularityDesc(mockPreschoolsOf(records)), 0,
                          r.limit)]
    [] r.op = "nearby" ->
         [status |-> "resolved", request |-> r,
          value |-> slice(byDistanceAsc(
                            withinDistance(
                              withDistances(withCoordinates(records),
                                            r.latitude, r.longitude),
                              r.radius)),
                          0, r.limit)]
    [] r.op = "details" ->
         LET found == findById(mockPreschoolsOf(records), r.preschoolId)
         IN  IF found = 0
             THEN [status |-> "rejected", request |-> r,
                   error |-> "not found"]
             ELSE [status |-> "resolved", request |-> r,
                   value |-> mockPreschoolsOf(records)[found]]

\* ------------------------------------------------- PreschoolDetailScreen
\* Most timers of loadPreschoolDetails pending at once.
MaxTimers == 2

\* useState(null) (part_002:448, 450).
Null == [null |-> TRUE]

\* loadPreschoolDetails (part_002:458-482) run on the state s of the screen:
\* with the record found it only sets the 1000 ms timer that will show it;
\* without it the catch block sets the error and ends the loading.
loadPreschoolDetails(s) ==
  LET mockPreschools == getMockPreschools
      found == findById(mockPreschools, s.preschoolId)
  IN  IF found # 0
      THEN [s EXCEPT !.loading = TRUE,
                     !.error = Null,
                     !.timers = Append(@, mockPreschools[found])]
      ELSE [s EXCEPT !.loading = FALSE,
                     !.error =
                       [message |->
                          "Unable to load preschool details. Please try again."]]

\* No load sets more timers than the model keeps.
TimerFits(id) ==
  findById(getMockPreschools, id) = 0
    \/ ~detailScreen.mounted
    \/ Len(detailScreen.timers) < MaxTimers

\* The first render and its effect (part_002:446-456).
DetailScreenMount ==
  /\ ~detailScreen.mounted
  /\ \E id \in DetailIds :
       detailScreen' =
         loadPreschoolDetails([mounted |-> TRUE, preschoolId |-> id,
                               preschool |-> Null, loading |-> TRUE,
                               error |-> Null, timers |-> <<>>])
  /\ UNCHANGED <<services, featuredPreschools, homeScreen>>

\* The route parameter changes and the effect runs again
\* (useEffect(..., [preschoolId]), part_002:454-456).
DetailScreenParams ==
  /\ detailScreen.mounted
  /\ \E id \in DetailIds \ {detailScreen.preschoolId} :
       /\ TimerFits(id)
       /\ detailScreen' =
            loadPreschoolDetails([detailScreen EXCEPT !.preschoolId = id])
  /\ UNCHANGED <<services, featuredPreschools, homeScreen>>

\* "Try Again" on the error view (part_002:543-554).
DetailScreenTryAgain ==
  /\ detailScreen.mounted
  /\ ~detailScreen.loading
  /\ detailScreen.error # Null
  /\ TimerFits(detailScreen.preschoolId)
  /\ detailScreen' = loadPreschoolDetails(detailScreen)
  /\ UNCHANGED <<services, featuredPreschools, homeScreen>>

\* The oldest timer fires (part_002:470-473): timers of one delay fire in
\* the order they were set, and none is ever cleared.
DetailScreenTimer ==
  /\ detailScreen.mounted
  /\ detailScreen.timers # <<>>
  /\ detailScreen' =
       [detailScreen EXCEPT !.preschool = Head(detailScreen.timers),
                            !.loading = FALSE,
                            !.timers = Tail(@)]
  /\ UNCHANGED <<services, featuredPreschools, homeScreen>>

NextDetailScreen ==
  \/ DetailScreenMount \/ DetailScreenParams \/ DetailScreenTryAgain
  \/ DetailScreenTimer

SpecDetailScreen == Init /\ [][NextDetailScreen]_vars

\* ----------------------------------------- FeaturedPreschools, HomeScreen
\* Most loads of one component awaiting their service call at once.
MaxLoads == 2

\* The limit prop of FeaturedPreschools: its default (part_000:172) and the
\* value HomeScreen passes (part_002:253).
DefaultLimitProp == 5
HomeScreenLimitProp == 3

\* The radius (5 miles, in tenths) and the limit HomeScreen asks nearby for
\* (part_002:169).
HomeScreenRadius == 50
HomeScreenLimit == 3

\* setError(null) at the start of a load (part_000:184).
errorCleared(error) == Null

\* A variant of the finally block that ends the loading state only after a
\* call that resolved.
loadingAfterResolved(resolved) == ~resolved

\* setLoading(false) in the finally block (part_000:191-193; part_002:173-175):
\* the loading flag after a call that resolved or was rejected.
loadingAfter(resolved) == FALSE

\* loadFeaturedPreschools up to its await (part_000:181-186), on the state s
\* of the component.
loadFeaturedPreschools(s) ==
  [s EXCEPT !.loading = TRUE,
            !.error = errorCleared(@),
            !.pending = @ + 1,
            !.last = "started"]

\* The first render of FeaturedPreschools and its effect (part_000:172-179).
FeaturedMount ==
  /\ ~featuredPreschools.mounted
  /\ \E limit \in {DefaultLimitProp, HomeScreenLimitProp} :
       featuredPreschools' =
         loadFeaturedPreschools([mounted |-> TRUE, limit |-> limit,
                                 preschools |-> <<>>, loading |-> TRUE,
                                 error |-> Null, pending |-> 0,
                                 last |-> "none", rejected |-> FALSE])
  /\ UNCHANGED <<services, detailScreen, homeScreen>>

\* "Try Again" and "Refresh" (part_000:226-240, 267-275): the buttons are
\* rendered with an empty list only, and not while the loading view is.
FeaturedRefresh ==
  /\ featuredPreschools.mounted
  /\ ~(featuredPreschools.loading /\ Len(featuredPreschools.preschools) = 0)
  /\ Len(featuredPreschools.preschools) = 0
  /\ featuredPreschools.pending < MaxLoads
  /\ featuredPreschools' = loadFeaturedPreschools(featuredPreschools)
  /\ UNCHANGED <<services, detailScreen, homeScreen>>

\* The call of getFeaturedPreschools resolves (part_003:88-105) and the load
\* goes on after its await (part_000:186-187, 191-193).
FeaturedResolves ==
  /\ featuredPreschools.mounted
  /\ featuredPreschools.pending > 0
  /\ featuredPreschools' =
       [featuredPreschools EXCEPT
          !.preschools = slice(byPopularityDesc(getMockPreschools), 0,
                               featuredPreschools.limit),
          !.loading = loadingAfter(TRUE),
          !.pending = @ - 1,
          !.last = "resolved"]
  /\ UNCHANGED <<services, detailScreen, homeScreen>>

\* The call is rejected (the fetch branch, part_003:106-121) and the load
\* goes on in its catch block (part_000:188-193).
FeaturedRejects ==
  /\ featuredPreschools.mounted
  /\ featuredPreschools.pending > 0
  /\ featuredPreschools' =
       [featuredPreschools EXCEPT
          !.error =
            [message |-> "Unable to load recommendations. Please try again."],
          !.loading = loadingAfter(FALSE),
          !.pending = @ - 1,
          !.last = "rejected",
          !.rejected = TRUE]
  /\ UNCHANGED <<services, detailScreen, homeScreen>>

\* The call of a FeaturedPreschools load settles.
FeaturedSettles == FeaturedRejects \/ FeaturedResolves

\* loadNearbyPreschools up to its await (part_002:164-169); byRefresh tells
\* a load made by onRefresh from the one of the effect.
loadNearbyPreschools(s, byRefresh) ==
  [s EXCEPT !.loadingNearby = TRUE,
            !.pending = Append(@, byRefresh),
            !.last = "started"]

\* The first render of HomeScreen and its effect (part_002:155-162).
HomeMount ==
  /\ ~homeScreen.mounted
  /\ homeScreen' =
       loadNearbyPreschools([mounted |-> TRUE, refreshing |-> FALSE,
                             nearbyPreschools |-> <<>>,
                             loadingNearby |-> TRUE, pending |-> <<>>,
                             last |-> "none"],
                            FALSE)
  /\ UNCHANGED <<services, detailScreen, featuredPreschools>>

\* onRefresh up to its await (part_002:178-180).
HomeRefresh ==
  /\ homeScreen.mounted
  /\ Len(homeScreen.pending) < MaxLoads
  /\ homeScreen' =
       loadNearbyPreschools([homeScreen EXCEPT !.refreshing = TRUE], TRUE)
  /\ UNCHANGED <<services, detailScreen, featuredPreschools>>

\* The pending loads of HomeScreen without the i-th.
withoutLoad(pending, i) ==
  SubSeq(pending, 1, i - 1) \o SubSeq(pending, i + 1, Len(pending))

\* A call of getNearbyPreschools resolves (part_003:125-133) and its load
\* goes on after the await (part_002:169-170, 173-175); a load made by
\* onRefresh then ends the refreshing state (part_002:181).
HomeResolves ==
  /\ homeScreen.mounted
  /\ \E i \in DOMAIN homeScreen.pending :
       homeScreen' =
         [homeScreen EXCEPT
            !.nearbyPreschools =
              slice(getPreschoolsNearLocation(HomeScreenOrigin.latitude,
                                              HomeScreenOrigin.longitude,
                                              HomeScreenRadius),
                    0, HomeScreenLimit),
            !.loadingNearby = loadingAfter(TRUE),
            !.refreshing = IF homeScreen.pending[i] THEN FALSE ELSE @,
            !.pending = withoutLoad(@, i),
            !.last = "resolved"]
  /\ UNCHANGED <<services, detailScreen, featuredPreschools>>

\* A call is rejected (the fetch branch, part_003:134-155) and its load goes
\* on in the catch block, which only logs (part_002:171-175).
HomeRejects ==
  /\ homeScreen.mounted
  /\ \E i \in DOMAIN homeScreen.pending :
       homeScreen' =
         [homeScreen EXCEPT
            !.loadingNearby = loadingAfter(FALSE),
            !.refreshing = IF homeScreen.pending[i] THEN FALSE ELSE @,
            !.pending = withoutLoad(@, i),
            !.last = "rejected"]
  /\ UNCHANGED <<services, detailScreen, featuredPreschools>>

\* A call of a HomeScreen load settles.
HomeSettles == HomeRejects \/ HomeResolves

NextScreens ==
  \/ FeaturedMount \/ FeaturedRefresh \/ FeaturedResolves \/ FeaturedRejects
  \/ HomeMount \/ HomeRefresh \/ HomeResolves \/ HomeRejects

SpecScreens == InitConcurrent /\ [][NextScreens]_vars

\* Every service call settles: its timer fires (part_003:92, 129), or its
\* fetch ends one way or the other.
SpecScreensSettle ==
  SpecScreens /\ WF_vars(FeaturedSettles) /\ WF_vars(HomeSettles)

\* ================================================================= claims
Range(s) == {s[i] : i \in DOMAIN s}

\* The position of a record in the record set, by its unique id.
PositionOf(p) ==
  CHOOSE i \in DOMAIN getMockPreschools : getMockPreschools[i].id = p.id

\* The records of l stand in the order the record set has them.
InRecordSetOrder(l) ==
  \A i, j \in DOMAIN l : i < j => PositionOf(l[i]) < PositionOf(l[j])

SearchSettled == outcome.status # "none" /\ outcome.request.op = "search"
SearchResolved == outcome.status = "resolved" /\ outcome.request.op = "search"

\* The criteria of a search request that are present, each as
\* searchPreschools evaluates it, all of them holding of p.
SatisfiesPresentCriteria(p, r) ==
  /\ r.query # <<>> => matchesQuery(p, r.query)
  /\ r.filters.minRating # 0 => p.rating >= r.filters.minRating
  /\ r.filters.ageRange # <<>> => matchesAgeRange(p, r.filters.ageRange)
  /\ r.filters.curriculum # <<>> => matchesCurriculum(p, r.filters.curriculum)
  /\ r.filters.priceRange # <<>> => matchesPriceRange(p, r.filters.priceRange)

NoCriterion(r) ==
  /\ r.query = <<>>
  /\ r.filters.minRating = 0
  /\ r.filters.ageRange = <<>>
  /\ r.filters.curriculum = <<>>
  /\ r.filters.priceRange = <<>>

\* C1: the filtered records of a search are exactly the records of the
\* record set that satisfy every criterion the request carries, each once;
\* a request with no query and no filter keeps the whole record set, and
\* totalCount counts the filtered records.
C1_FilteredIffEveryPresentCriterion ==
  SearchResolved =>
    LET r == outcome.request
        all == getMockPreschools
    IN  /\ \A i \in DOMAIN all :
             (all[i] \in Range(filtered)) <=> SatisfiesPresentCriteria(all[i], r)
        /\ Len(filtered) =
             Cardinality({i \in DOMAIN all : SatisfiesPresentCriteria(all[i], r)})
        /\ NoCriterion(r) => filtered = all
        /\ outcome.value.totalCount = Len(filtered)

\* C1 witness: two criteria are present, one record passes and one fails.
C1_Witness ==
  /\ SearchResolved
  /\ outcome.request.query # <<>>
  /\ outcome.request.filters.minRating # 0
  /\ outcome.request.filters.curriculum = <<>>
  /\ Len(filtered) > 0
  /\ Len(filtered) < Len(getMockPreschools)

\* C1 second case: a request without any criterion, over a non-empty set.
C1_WitnessNoCriterion ==
  SearchResolved /\ NoCriterion(outcome.request) /\ Len(filtered) > 1

\* The age-range criterion as the claim has it: containment without regard
\* to letter case.
AgeRangeIgnoringCase(p, ageRange) ==
  truthy(p, "ageRange")
    /\ includes(toLowerCase(p.ageRange), toLowerCase(ageRange))

\* C2: a record passes the age-range criterion of search exactly when its
\* age-range text contains the filter value, letter case disregarded.
C2_AgeRangeIgnoresCase ==
  (SearchResolved /\ outcome.request.filters.ageRange # <<>>) =>
    LET r == outcome.request
        all == getMockPreschools
        rest == [r EXCEPT !.filters.ageRange = <<>>]
    IN  \A i \in DOMAIN all :
          (all[i] \in Range(filtered)) <=>
             /\ SatisfiesPresentCriteria(all[i], rest)
             /\ AgeRangeIgnoringCase(all[i], r.filters.ageRange)

\* The items of pages 1..n of the filtered list, concatenated.
PagesUpTo(list, n, limit) ==
  LET cat[k \in 0..n] ==
        IF k = 0 THEN <<>>
        ELSE cat[k - 1] \o paginate(list, k, limit).results
  IN  cat[n]

\* C3: search ranks nothing: the filtered records, the records of the
\* returned page, and the records of pages 1..totalPages read in sequence
\* stand in the relative order of the record set.
C3_SearchKeepsRecordSetOrder ==
  SearchResolved =>
    /\ InRecordSetOrder(filtered)
    /\ InRecordSetOrder(outcome.value.results)
    /\ outcome.request.limit > 0 =>
         InRecordSetOrder(
           PagesUpTo(filtered, outcome.value.totalPages.n,
                     outcome.request.limit))

\* C3 witness: some record is filtered out, and on the returned page a
\* lower-rated record stays ahead of a higher-rated one.
C3_Witness ==
  /\ SearchResolved
  /\ Len(outcome.value.results) >= 2
  /\ outcome.value.results[1].rating < outcome.value.results[2].rating
  /\ Len(filtered) < Len(getMockPreschools)

\* C4: for limit > 0 the items of pages 1..totalPages, concatenated, are
\* the filtered list: same records, same order, none twice, none missing;
\* and the page returned is that page's part of it.
C4_PagesConcatenateToFiltered ==
  (SearchResolved /\ outcome.request.limit > 0) =>
    LET lim == outcome.request.limit
        tp  == outcome.value.totalPages.n
        pg  == outcome.request.page
    IN  /\ PagesUpTo(filtered, tp, lim) = filtered
        /\ pg \in 1..tp =>
             PagesUpTo(filtered, pg - 1, lim) \o outcome.value.results
               = PagesUpTo(filtered, pg, lim)

\* C4 witness: three pages, the last one partly filled, the middle one
\* returned.
C4_Witness ==
  /\ SearchResolved
  /\ outcome.request.limit = 2
  /\ outcome.request.page = 2
  /\ Len(filtered) = 5
  /\ outcome.value.totalPages.n = 3

\* C5: for limit > 0 and any page, totalCount is the number of filtered
\* records, totalPages is ceil(totalCount / limit), the least k with
\* k * limit >= totalCount (0 when nothing matched), and page is the page
\* asked for; five records at page 2, limit 2 give items r3, r4, totalCount
\* 5 and totalPages 3.
C5_CountsAndPages ==
  (SearchResolved /\ outcome.request.limit > 0) =>
    LET lim == outcome.request.limit
        v   == outcome.value
    IN  /\ v.totalCount = Len(filtered)
        /\ v.totalCount =
             Len(searchFilter(getMockPreschools, outcome.request.query,
                              outcome.request.filters))
        /\ v.totalPages.kind = "finite"
        /\ v.totalPages.n * lim >= v.totalCount
        /\ (v.totalPages.n - 1) * lim < v.totalCount
        /\ v.totalPages.n >= 0
        /\ v.totalCount = 0 => v.totalPages.n = 0
        /\ v.page = outcome.request.page
        /\ (Len(filtered) = 5 /\ v.page = 2 /\ lim = 2) =>
             /\ v.results = <<filtered[3], filtered[4]>>
             /\ v.totalCount = 5
             /\ v.totalPages.n = 3

\* C5 witness: the example, five filtered records at page 2, limit 2.
C5_Witness ==
  /\ SearchResolved
  /\ Len(filtered) = 5
  /\ outcome.request.page = 2
  /\ outcome.request.limit = 2
  /\ outcome.value.results = <<filtered[3], filtered[4]>>

\* C5 second case: nothing matched.
C5_WitnessEmpty ==
  /\ SearchResolved
  /\ outcome.request.limit > 0
  /\ outcome.value.totalCount = 0
  /\ Len(getMockPreschools) > 0

\* C6: with limit > 0, a page past totalPages is no error: the search
\* resolves with no items and with the totalCount and totalPages of the
\* in-range pages; a search is rejected only for the missing service.
C6_PageBeyondRangeIsEmpty ==
  /\ (SearchSettled /\ outcome.status = "rejected") =>
       outcome.error = "RecommendationService not set"
  /\ (SearchResolved /\ outcome.request.limit > 0
        /\ outcome.request.page > outcome.value.totalPages.n) =>
       LET first == paginate(filtered, 1, outcome.request.limit)
       IN  /\ outcome.value.results = <<>>
           /\ outcome.value.totalCount = Len(filtered)
           /\ outcome.value.totalCount = first.totalCount
           /\ outcome.value.totalPages = first.totalPages

\* C6 witness: a page past the last one of a non-empty filtered list.
C6_Witness ==
  /\ SearchResolved
  /\ outcome.request.limit > 0
  /\ outcome.request.page > outcome.value.totalPages.n
  /\ Len(filtered) > 0

\* C7: a search called with limit <= 0 ends in an error and yields no
\* result object.
C7_NonPositiveLimitFails ==
  (SearchSettled /\ outcome.request.limit <= 0) => outcome.status = "rejected"

RecommendSettled == outcome.status # "none" /\ outcome.request.op = "recommend"
RecommendResolved ==
  outcome.status = "resolved" /\ outcome.request.op = "recommend"

\* The criteria of a preference set that are present, all holding of p:
\* location inside the address or the city, letter case disregarded, or
\* inside the postal code; rating at least minRating; curriculum inside the
\* record's curriculum, letter case disregarded.
SatisfiesPreferences(p, pref) ==
  /\ pref.location # <<>> =>
       \/ includes(toLowerCase(p.address), toLowerCase(pref.location))
       \/ (has(p, "city")
             /\ includes(toLowerCase(p.city), toLowerCase(pref.location)))
       \/ (has(p, "zip_code") /\ includes(p.zip_code, pref.location))
  /\ pref.minRating # 0 => p.rating >= pref.minRating
  /\ pref.curriculum # <<>> =>
       (truthy(p, "curriculum")
          /\ includes(toLowerCase(p.curriculum), toLowerCase(pref.curriculum)))

\* C8: for every record set and preference set, the candidates of a
\* recommendation (the filtered list, before ranking and truncation) are
\* exactly the records that satisfy every present criterion.
C8_CandidatesIffEveryPresentCriterion ==
  RecommendSettled =>
    \A i \in DOMAIN getMockPreschools :
      (outcome.status = "resolved" /\ getMockPreschools[i] \in Range(filtered))
        <=> SatisfiesPreferences(getMockPreschools[i], outcome.request.preferences)

\* What getRecommendations does keep of C8: whenever the filters run to
\* completion, the candidates are the records satisfying every criterion.
RecommendCandidatesWhenResolved ==
  RecommendResolved =>
    \A i \in DOMAIN getMockPreschools :
      (getMockPreschools[i] \in Range(filtered))
        <=> SatisfiesPreferences(getMockPreschools[i], outcome.request.preferences)

\* C9: the list getRecommendations returns is ordered by rating, highest
\* first, and two returned records of equal rating keep the relative order
\* they have in the record set.
C9_RecommendationsByRatingStable ==
  RecommendResolved =>
    \A i, j \in DOMAIN outcome.value :
      i < j =>
        /\ outcome.value[i].rating >= outcome.value[j].rating
        /\ outcome.value[i].rating = outcome.value[j].rating =>
             PositionOf(outcome.value[i]) < PositionOf(outcome.value[j])

\* C9 witness: two records of equal rating are returned.
C9_Witness ==
  /\ RecommendResolved
  /\ Len(outcome.value) >= 2
  /\ outcome.value[1].rating = outcome.value[2].rating

\* C9 second case: the ranking moved a record ahead of one that precedes
\* it in the record set.
C9_WitnessReordered ==
  /\ RecommendResolved
  /\ \E i, j \in DOMAIN outcome.value :
       i < j /\ PositionOf(outcome.value[i]) > PositionOf(outcome.value[j])

FeaturedResolved ==
  outcome.status = "resolved" /\ outcome.request.op = "featured"

\* C10: the list getFeaturedPreschools returns is ordered by the score
\* rating x ln(reviewCount + 1), highest first, two records of equal score
\* keep the relative order of the record set, and the ranking is over the
\* whole record set: a limit that covers it returns every record once.
\* A record {4.7, 128 reviews} stands before a record {4.8, 20 reviews}.
C10_FeaturedByPopularityStable ==
  FeaturedResolved =>
    LET v == outcome.value
        all == getMockPreschools
    IN  /\ \A i, j \in DOMAIN v :
             i < j =>
               /\ score(v[i]) >= score(v[j])
               /\ score(v[i]) = score(v[j]) =>
                    PositionOf(v[i]) < PositionOf(v[j])
               /\ ~(v[i].rating = 48 /\ v[i].reviewCount = 20
                      /\ v[j].rating = 47 /\ v[j].reviewCount = 128)
        /\ Range(v) \subseteq Range(all)
        /\ outcome.request.limit >= Len(all) =>
             (Len(v) = Len(all) /\ Range(v) = Range(all))

\* C10 witness: the record {4.7, 128} precedes {4.8, 20} in the result and
\* follows it in the record set.
C10_Witness ==
  /\ FeaturedResolved
  /\ Len(outcome.value) = 2
  /\ outcome.value[1].rating = 47 /\ outcome.value[1].reviewCount = 128
  /\ outcome.value[2].rating = 48 /\ outcome.value[2].reviewCount = 20
  /\ PositionOf(outcome.value[1]) > PositionOf(outcome.value[2])

\* C10 second case: two records of equal score are returned.
C10_WitnessTie ==
  /\ FeaturedResolved
  /\ Len(outcome.value) = 2
  /\ score(outcome.value[1]) = score(outcome.value[2])

NearbySettled == outcome.status # "none" /\ outcome.request.op = "nearby"
NearbyResolved == outcome.status = "resolved" /\ outcome.request.op = "nearby"

\* A recommend, featured or nearby call has returned a list.
ListResolved == RecommendResolved \/ FeaturedResolved \/ NearbyResolved

\* The ranked candidate sequence of the call that has returned: the
\* candidates of recommend by rating, each with its match reasons; the whole
\* record set by popularity for featured; the records inside the radius by
\* distance, as getPreschoolsNearLocation hands them over, for nearby.
RankedCandidates ==
  CASE outcome.request.op = "recommend" ->
         [i \in DOMAIN filtered |->
            withMatchReasons(byRatingDesc(filtered)[i],
                             outcome.request.preferences)]
    [] outcome.request.op = "featured" -> byPopularityDesc(getMockPreschools)
    [] outcome.request.op = "nearby" -> filtered

Min(a, b) == IF a < b THEN a ELSE b

\* C11: for limit > 0, recommend, featured and nearby return exactly the
\* first min(limit, k) elements of their ranked candidate sequence of
\* length k, in its order.
C11_FirstLimitOfRanked ==
  (ListResolved /\ outcome.request.limit > 0) =>
    /\ Len(outcome.value) = Min(outcome.request.limit, Len(RankedCandidates))
    /\ \A i \in DOMAIN outcome.value : outcome.value[i] = RankedCandidates[i]

\* A nearby call that cut its ranked candidates: two records inside the
\* radius, limit 1, and the nearer one is the second of the record set.
C11_Witness ==
  /\ NearbyResolved
  /\ outcome.request.limit = 1
  /\ Len(filtered) = 2
  /\ outcome.value = <<filtered[1]>>
  /\ filtered[1].id = warehouse[2].id

\* A recommend call that returned all its candidates, fewer than the limit.
C11_WitnessAll ==
  /\ RecommendResolved
  /\ outcome.request.limit > Len(filtered)
  /\ Len(filtered) > 0
  /\ Len(outcome.value) = Len(filtered)

\* A featured call that cut the record set.
C11_WitnessFeatured ==
  /\ FeaturedResolved
  /\ outcome.request.limit > 0
  /\ outcome.request.limit < Len(getMockPreschools)
  /\ Len(outcome.value) = outcome.request.limit

\* The great-circle distance of a located record p from the origin of the
\* nearby call that has settled, as calculateDistance computes it.
DistanceFromOrigin(p) ==
  distanceBetween(outcome.request.latitude, outcome.request.longitude,
                  p.latitude, p.longitude)

\* x miles is at most a radius given in tenths of a mile.
WithinRadius(miles, radius) ==
  ~IsNaN(miles) /\ ~Less(Over(FromInt(radius), FromInt(10)), miles)

\* p is among the candidates of the nearby call: the list
\* getPreschoolsNearLocation handed over holds the record of its id.
IsNearbyCandidate(p) == \E j \in DOMAIN filtered : filtered[j].id = p.id

\* C12: a record is a candidate of the nearby flow if and only if it has a
\* latitude and a longitude, 0 included, and its computed distance from the
\* origin is at most the radius.
C12_CandidateIffLocatedWithinRadius ==
  NearbyResolved =>
    \A i \in DOMAIN warehouse :
      IsNearbyCandidate(warehouse[i]) <=>
        /\ has(warehouse[i], "latitude")
        /\ has(warehouse[i], "longitude")
        /\ WithinRadius(DistanceFromOrigin(warehouse[i]),
                        outcome.request.radius)

\* A record on the equator, inside the radius, that is no candidate.
C12_ZeroLatitudeDropped ==
  /\ NearbyResolved
  /\ \E i \in DOMAIN warehouse :
       /\ has(warehouse[i], "latitude") /\ warehouse[i].latitude = 0
       /\ WithinRadius(DistanceFromOrigin(warehouse[i]),
                       outcome.request.radius)
       /\ ~IsNearbyCandidate(warehouse[i])

\* A record beyond the radius that is a candidate: 5.03 miles away for a
\* radius of 5 miles.
C12_KeptBeyondRadius ==
  /\ NearbyResolved
  /\ \E i \in DOMAIN warehouse :
       /\ has(warehouse[i], "latitude") /\ has(warehouse[i], "longitude")
       /\ ~WithinRadius(DistanceFromOrigin(warehouse[i]),
                        outcome.request.radius)
       /\ IsNearbyCandidate(warehouse[i])

\* C13: the nearby flow returns its records in ascending order of computed
\* distance: of two returned records, the one placed earlier is no farther
\* from the origin than the one placed later.
C13_AscendingComputedDistance ==
  NearbyResolved =>
    \A i, j \in DOMAIN outcome.value :
      i < j => ~Less(DistanceFromOrigin(outcome.value[j]),
                     DistanceFromOrigin(outcome.value[i]))

\* What the sort does establish: ascending order of the attached distance,
\* the computed distance rounded to one decimal.
AscendingAttachedDistance ==
  NearbyResolved =>
    \A i, j \in DOMAIN outcome.value :
      i < j => outcome.value[i].distance <= outcome.value[j].distance

\* Two returned records with different attached distances, in the reverse
\* of their record-set order.
NearbyReordered ==
  /\ NearbyResolved
  /\ Len(outcome.value) = 2
  /\ outcome.value[1].distance < outcome.value[2].distance
  /\ outcome.value[1].id = warehouse[2].id

DistanceResolved ==
  outcome.status = "resolved" /\ outcome.request.op = "distance"

\* A latitude in [-90, 90] and a longitude in [-180, 180].
ValidCoordinate(c) ==
  /\ -90000000 <= c.latitude /\ c.latitude <= 90000000
  /\ -180000000 <= c.longitude /\ c.longitude <= 180000000

C14_WitnessItself ==
  /\ DistanceResolved
  /\ ValidCoordinate(outcome.request.from)
  /\ outcome.request.from = outcome.request.to
  /\ outcome.request.from.latitude # 0
  /\ outcome.value = Zero

\* An antipodal pair whose distance is NaN, in either order.
C14_WitnessNaN ==
  /\ DistanceResolved
  /\ ValidCoordinate(outcome.request.from)
  /\ ValidCoordinate(outcome.request.to)
  /\ IsNaN(outcome.value)

DistanceSettled == outcome.status # "none" /\ outcome.request.op = "distance"

\* C15: the distance computation fails exactly when a latitude is outside
\* [-90, 90] or a longitude is outside [-180, 180].
C15_FailsIffCoordinateOutOfRange ==
  DistanceSettled =>
    (outcome.status = "rejected" <=>
       ~(ValidCoordinate(outcome.request.from)
           /\ ValidCoordinate(outcome.request.to)))

\* calculateDistance never throws: every call returns a value.
DistanceAlwaysReturns == DistanceSettled => outcome.status = "resolved"

\* A latitude of 91 degrees is computed with: about 3677 miles.
C15_OutOfRangeComputed ==
  /\ DistanceResolved
  /\ outcome.request.from.latitude > 90000000
  /\ ValidCoordinate(outcome.request.to)
  /\ Less(FromInt(3600), outcome.value)
  /\ Less(outcome.value, FromInt(3700))

\* A recommend, featured or nearby call has ended, with a list or an error.
ListSettled ==
  outcome.status # "none"
    /\ outcome.request.op \in {"recommend", "featured", "nearby"}

\* C16: recommend, featured and nearby called with limit <= 0, and nearby
\* called with radius <= 0, end in an error and return no list.
C16_NonPositiveLimitOrRadiusFails ==
  (ListSettled /\ (\/ outcome.request.limit <= 0
                   \/ (outcome.request.op = "nearby"
                         /\ outcome.request.radius <= 0))) =>
    outcome.status = "rejected"

\* A limit of -1 returns all records but the last: slice(0, -1).
C16_NegativeLimitReturnsRecords ==
  /\ ListResolved
  /\ outcome.request.limit < 0
  /\ Len(outcome.value) > 0

\* A limit of 0 returns the empty list.
C16_ZeroLimitReturnsEmptyList ==
  /\ ListResolved
  /\ outcome.request.limit = 0
  /\ Len(RankedCandidates) > 0
  /\ outcome.value = <<>>

\* A radius of 0 or less is searched with, and a result is returned.
C16_NonPositiveRadiusReturns ==
  /\ NearbyResolved
  /\ outcome.request.radius <= 0
  /\ outcome.request.limit > 0

MatchReasonsReturned ==
  outcome.status = "resolved" /\ outcome.request.op = "matchReasons"

FallbackReason == Reason("Matches your preferences", <<>>)

\* Whether rule k of the five holds of record p under the preference set.
RuleHolds(k, p, pref) ==
  CASE k = 1 -> p.rating >= 40
    [] k = 2 -> /\ pref.curriculum # <<>>
                /\ has(p, "curriculum")
                /\ p.curriculum # <<>>
                /\ includes(toLowerCase(p.curriculum),
                            toLowerCase(pref.curriculum))
    [] k = 3 -> p.reviewCount > 50
    [] k = 4 -> \/ (has(p, "program_type")
                      /\ p.program_type = <<67, 83, 80, 80>>)
                \/ (Len(p.id) >= 5
                      /\ SubSeq(p.id, 1, 5) = <<67, 83, 80, 80, 95>>)
    [] k = 5 -> has(p, "features") /\ p.features # <<>>

\* The string of rule k for record p.
RuleReason(k, p) ==
  CASE k = 1 -> IF p.rating >= 45 THEN Reason("Top-rated preschool", <<>>)
                ELSE Reason("Highly rated by parents", <<>>)
    [] k = 2 -> Reason("Offers {} curriculum", p.curriculum)
    [] k = 3 -> Reason("Popular with many positive reviews", <<>>)
    [] k = 4 -> Reason("California State Preschool Program", <<>>)
    [] k = 5 -> Reason("Offers {}", Head(p.features))

\* The rules that hold, in the order 1..5.
RulesFired(p, pref) ==
  LET holds(k) == RuleHolds(k, p, pref)
  IN  SelectSeq(<<1, 2, 3, 4, 5>>, holds)

\* The reasons returned for the request, the fallback reason left out.
RuleReasonsReturned ==
  LET isRuleReason(r) == r # FallbackReason
  IN  SelectSeq(outcome.value, isRuleReason)

\* C17: generateMatchReasons returns the strings of exactly the rules that
\* hold of the record and the preferences, once each, in the order rating,
\* curriculum, reviews, state program, first feature.
C17_ReasonsOfRulesInOrder ==
  MatchReasonsReturned =>
    LET fired == RulesFired(outcome.request.preschool,
                            outcome.request.preferences)
    IN  RuleReasonsReturned =
          [i \in DOMAIN fired |->
             RuleReason(fired[i], outcome.request.preschool)]

\* The example of the specification: rating 4.9, 60 reviews, features
\* ['Organic meals'], no curriculum preference.
C17_Witness ==
  /\ MatchReasonsReturned
  /\ outcome.request.preschool.rating = 49
  /\ outcome.request.preschool.reviewCount = 60
  /\ outcome.request.preferences.curriculum = <<>>
  /\ Len(outcome.value) = 3
  /\ outcome.value[1].text = "Top-rated preschool"
  /\ outcome.value[2].text = "Popular with many positive reviews"
  /\ outcome.value[3].text = "Offers {}"
  /\ Len(outcome.value[3].arg) = 13

\* All five rules fire on one record.
C17_WitnessAllRules ==
  /\ MatchReasonsReturned
  /\ Len(outcome.value) = 5
  /\ outcome.value[1].text = "Highly rated by parents"
  /\ outcome.value[2].text = "Offers {} curriculum"
  /\ outcome.value[5].arg = <<80, 111, 111, 108>>

\* C18: generateMatchReasons never returns an empty sequence; the fallback
\* reason is in it exactly when none of the five rules holds, and then it is
\* the only element.
C18_FallbackIffNoRule ==
  MatchReasonsReturned =>
    LET fired == RulesFired(outcome.request.preschool,
                            outcome.request.preferences)
    IN  /\ Len(outcome.value) > 0
        /\ (\E i \in DOMAIN outcome.value : outcome.value[i] = FallbackReason)
              <=> fired = <<>>
        /\ fired = <<>> => outcome.value = <<FallbackReason>>

\* No rule holds and the fallback is returned alone.
C18_Witness ==
  /\ MatchReasonsReturned
  /\ outcome.request.preschool.rating = 39
  /\ outcome.request.preschool.reviewCount = 50
  /\ outcome.value = <<FallbackReason>>

\* A single rule holds and its reason is returned alone.
C18_WitnessOneRule ==
  /\ MatchReasonsReturned
  /\ Len(outcome.value) = 1
  /\ outcome.value[1] # FallbackReason

CarriesDistance(p) == "distance" \in DOMAIN p
CarriesMatchReasons(p) == "matchReasons" \in DOMAIN p

\* C20: every record nearby returns carries a distance and no matchReasons,
\* every record recommend returns carries matchReasons and no distance, and
\* the records search and featured return carry neither.
C20_RequestScopedAttributes ==
  /\ NearbyResolved =>
       \A i \in DOMAIN outcome.value :
         CarriesDistance(outcome.value[i])
           /\ ~CarriesMatchReasons(outcome.value[i])
  /\ RecommendResolved =>
       \A i \in DOMAIN outcome.value :
         CarriesMatchReasons(outcome.value[i])
           /\ ~CarriesDistance(outcome.value[i])
  /\ FeaturedResolved =>
       \A i \in DOMAIN outcome.value :
         ~CarriesDistance(outcome.value[i])
           /\ ~CarriesMatchReasons(outcome.value[i])
  /\ SearchResolved =>
       \A i \in DOMAIN outcome.value.results :
         ~CarriesDistance(outcome.value.results[i])
           /\ ~CarriesMatchReasons(outcome.value.results[i])

\* nearby has returned two records, each with its distance.
C20_Witness ==
  /\ NearbyResolved
  /\ Len(outcome.value) = 2
  /\ outcome.value[1].distance < outcome.value[2].distance

C20_WitnessRecommend ==
  RecommendResolved /\ Len(outcome.value) = 2
    /\ Len(outcome.value[1].matchReasons) > 1

C20_WitnessFeatured == FeaturedResolved /\ Len(outcome.value) = 2

C20_WitnessSearch == SearchResolved /\ Len(outcome.value.results) = 2

DetailsSettled == outcome.status # "none" /\ outcome.request.op = "details"

\* The calls of getPreschoolDetails that ran with a recommendation service
\* injected.
DetailsLookedUp ==
  DetailsSettled /\ ~(outcome.status = "rejected"
                        /\ outcome.error = "RecommendationService not set")

\* C23: with a recommendation service injected, getPreschoolDetails(id)
\* returns the record of the record set whose id is id when there is one,
\* and is rejected with a not-found error when there is none.
C23_RecordWithIdOrNotFound ==
  DetailsLookedUp =>
    LET withId == {i \in DOMAIN getMockPreschools :
                     getMockPreschools[i].id = outcome.request.preschoolId}
    IN  IF withId = {}
        THEN outcome.status = "rejected" /\ outcome.error = "not found"
        ELSE /\ outcome.status = "resolved"
             /\ \E i \in withId : outcome.value = getMockPreschools[i]

\* The second record of a warehouse of two is looked up and returned.
C23_Witness ==
  /\ DetailsSettled
  /\ outcome.status = "resolved"
  /\ Len(warehouse) = 2
  /\ outcome.value = warehouse[2]
  /\ outcome.value.id = outcome.request.preschoolId

\* An id no record carries is rejected as not found.
C23_WitnessNotFound ==
  /\ DetailsSettled
  /\ outcome.status = "rejected"
  /\ outcome.error = "not found"
  /\ Len(warehouse) = 2

\* A record of the built-in list is looked up.
C23_WitnessBuiltIn ==
  /\ DetailsSettled
  /\ outcome.status = "resolved"
  /\ warehouse = <<>>
  /\ outcome.value = MockP6

\* C26: a search with page < 1 and limit > 0 returns no record.
C26_PageBelowOneReturnsNothing ==
  (SearchResolved /\ outcome.request.page < 1 /\ outcome.request.limit > 0) =>
    outcome.value.results = <<>>

\* Page -1 returns records: slice(-2 * limit, -limit) counts from the end.
C26_NegativePageReturnsRecords ==
  /\ SearchResolved
  /\ outcome.request.page = -1
  /\ outcome.request.limit > 0
  /\ Len(outcome.value.results) > 0

\* Page 0 returns nothing: slice(-limit, 0) is empty.
PageZeroReturnsNothing ==
  (SearchResolved /\ outcome.request.page = 0 /\ outcome.request.limit > 0) =>
    outcome.value.results = <<>>

\* The timer of a waiting search or details call fires in this step.
ServiceCallResumes ==
  call.op \in {"search", "details"} /\ call' = NoCall

ServiceNotSet(o) ==
  o.status = "rejected" /\ o.error = "RecommendationService not set"

\* C27: searchPreschools and getPreschoolDetails fail with
\* 'RecommendationService not set' exactly when no service is injected at
\* the moment the timer fires, and making the call settles nothing.
C27_ServiceTestedWhenTimerFires ==
  [][/\ ServiceCallResumes =>
          /\ outcome'.request = call
          /\ ServiceNotSet(outcome') <=> ~recommendationService
     /\ (call = NoCall /\ call' # NoCall) => outcome' = outcome]_vars

\* A details call made before the service was injected has returned its
\* record.
C27_Witness ==
  /\ DetailsSettled
  /\ outcome.status = "resolved"
  /\ ~outcome.request.injected

\* A details call whose timer fired with no service injected was rejected.
C27_WitnessRejected ==
  /\ DetailsSettled
  /\ ServiceNotSet(outcome)
  /\ ~recommendationService

\* A search whose timer fired with no service injected was rejected.
C27_WitnessSearchRejected ==
  /\ SearchSettled
  /\ ServiceNotSet(outcome)
  /\ ~recommendationService

\* A call of one of the five query flows has ended, and not for want of an
\* injected recommendation service.
QuerySettled ==
  /\ outcome.status # "none"
  /\ outcome.request.op \in
       {"search", "recommend", "featured", "nearby", "details"}
  /\ ~ServiceNotSet(outcome)

\* What the request `r` yields over the built-in reference set.
OverBuiltInSet(r) ==
  CASE r.op = "search" ->
         paginate(searchFilter(MockFallback, r.query, r.filters),
                  r.page, r.limit)
    [] r.op = "recommend" ->
         LET top == slice(byRatingDesc(recommendFilter(MockFallback,
                                                       r.preferences)),
                          0, r.limit)
         IN  [i \in DOMAIN top |-> withMatchReasons(top[i], r.preferences)]
    [] r.op = "featured" -> slice(byPopularityDesc(MockFallback), 0, r.limit)
    [] r.op = "nearby" ->
         slice(byDistanceAsc(
                 withinDistance(
                   withDistances(withCoordinates(MockFallback),
                                 r.latitude, r.longitude),
                   r.radius)),
               0, r.limit)
    [] r.op = "details" ->
         MockFallback[findIndex(MockFallback,
                                [i \in DOMAIN MockFallback |->
                                   MockFallback[i].id = r.preschoolId])]

\* The request asks for a record the built-in set does not hold.
AsksForUnknownRecord(r) ==
  r.op = "details"
    /\ \A i \in DOMAIN MockFallback : MockFallback[i].id # r.preschoolId

\* C22: when the data warehouse holds no record, each of the five query
\* flows answers from the built-in reference set, and the call does not
\* fail (but for a lookup of an id the built-in set does not hold).
C22_BuiltInSetWhenNoData ==
  (QuerySettled /\ warehouse = <<>>) =>
    IF AsksForUnknownRecord(outcome.request)
    THEN outcome.status = "rejected"
    ELSE /\ outcome.status = "resolved"
         /\ outcome.value = OverBuiltInSet(outcome.request)

\* With no record in the warehouse, a recommend call with a location
\* preference is rejected with a TypeError.
C22_RecommendRaisesOverBuiltInSet ==
  /\ RecommendSettled
  /\ warehouse = <<>>
  /\ outcome.status = "rejected"
  /\ outcome.error = "TypeError"

\* But for a recommend call with a location preference, the flows answer
\* from the built-in set.
BuiltInSetButForLocation ==
  (QuerySettled /\ warehouse = <<>>
     /\ ~(outcome.request.op = "recommend"
            /\ outcome.request.preferences.location # <<>>)) =>
    IF AsksForUnknownRecord(outcome.request)
    THEN outcome.status = "rejected"
    ELSE /\ outcome.status = "resolved"
         /\ outcome.value = OverBuiltInSet(outcome.request)

\* A search, recommend, featured or nearby call with limit > 0 has ended,
\* and not for want of an injected recommendation service.
WellFormedListSettled ==
  /\ outcome.status # "none"
  /\ outcome.request.op \in {"search", "recommend", "featured", "nearby"}
  /\ outcome.request.limit > 0
  /\ ~ServiceNotSet(outcome)

\* C24: a search, recommend, featured or nearby call with limit > 0 returns
\* a result, empty or not, and never raises, whatever the record set.
C24_ListFlowsNeverRaise ==
  WellFormedListSettled => outcome.status = "resolved"

\* Over the built-in records a recommend call with the location '94025',
\* which the addresses of p2, p4 and p6 contain, raises instead of returning
\* the three.
C24_RaisesWhenSomeMatch ==
  /\ WellFormedListSettled
  /\ outcome.request.op = "recommend"
  /\ outcome.request.preferences.location = <<57, 52, 48, 50, 53>>
  /\ warehouse = <<>>
  /\ outcome.status = "rejected"
  /\ outcome.error = "TypeError"

\* search, featured and nearby return a result for every such request, and
\* recommend does without a location preference.
ListFlowsReturnButForLocation ==
  (WellFormedListSettled
     /\ ~(outcome.request.op = "recommend"
            /\ outcome.request.preferences.location # <<>>)) =>
    outcome.status = "resolved"

\* C28: save and remove return true and leave the favorites list empty;
\* whatever was saved or removed, getFavoritePreschools returns the first
\* three records of the record set.
C28_FavoritesUntouched ==
  /\ favorites = <<>>
  /\ (outcome.status # "none" /\ outcome.request.op \in {"save", "remove"}) =>
       outcome.status = "resolved" /\ outcome.value = TRUE
  /\ (outcome.status = "resolved" /\ outcome.request.op = "favorites") =>
       /\ Len(outcome.value) = Min(3, Len(getMockPreschools))
       /\ \A i \in DOMAIN outcome.value :
            outcome.value[i] = getMockPreschools[i]

\* With only p6 saved, getFavoritePreschools returns p1, p2 and p3.
C28_Witness ==
  /\ outcome.status = "resolved"
  /\ outcome.request.op = "favorites"
  /\ saved = {<<112, 54>>}
  /\ outcome.value = <<MockP1, MockP2, MockP3>>

\* isFavorite answers false for an id that has been saved.
C28_WitnessSavedNotFavorite ==
  /\ outcome.status = "resolved"
  /\ outcome.request.op = "isFavorite"
  /\ outcome.request.preschoolId \in saved
  /\ outcome.value = FALSE

\* isFavorite answers true for an id that is not saved.
C28_WitnessFavoriteNotSaved ==
  /\ outcome.status = "resolved"
  /\ outcome.request.op = "isFavorite"
  /\ outcome.request.preschoolId \notin saved
  /\ outcome.value = TRUE

\* C21: no step of any flow changes the record set the data module holds:
\* same records, same order, same field values, and no record with a
\* distance or matchReasons attribute.
C21_RecordSetUnchanged ==
  [][/\ warehouse' = warehouse
     /\ \A i \in DOMAIN warehouse' :
          ~CarriesDistance(warehouse'[i])
            /\ ~CarriesMatchReasons(warehouse'[i])]_vars

\* featured has returned the two records of the warehouse in the other
\* order while another call waits, and the warehouse has its records in
\* the order of their ids.
C21_Witness ==
  /\ FeaturedResolved
  /\ waiting # {}
  /\ Len(warehouse) = 2
  /\ outcome.value = <<warehouse[2], warehouse[1]>>
  /\ warehouse[1].id[Len(warehouse[1].id)] = 49
  /\ warehouse[2].id[Len(warehouse[2].id)] = 50

\* recommend has returned records with match reasons, ranked otherwise than
\* the warehouse holds them.
C21_WitnessRecommend ==
  /\ RecommendResolved
  /\ Len(warehouse) = 2
  /\ Len(outcome.value) = 2
  /\ outcome.value[1].id = warehouse[2].id
  /\ CarriesMatchReasons(outcome.value[1])

\* A call of one of the five flows has settled.
ConcurrentSettled ==
  outcome.status # "none"
    /\ outcome.request.op \in {"search", "recommend", "featured", "nearby",
                               "details"}

\* C25: whatever calls overlap and in whatever order their timers fire, a
\* call settles as it would alone over the record set that was loaded
\* (or is refused for want of the recommendation service, which only search
\* and the lookup test).
C25_ResultAsIfAlone ==
  ConcurrentSettled =>
    \/ /\ ServiceNotSet(outcome)
       /\ outcome.request.op \in {"search", "details"}
    \/ outcome = ResultAlone(outcome.request, Loaded)

\* A search made after featured has ranked two records the other way round,
\* and settled while another call still waits, has returned the two records
\* in the order they were loaded.
C25_Witness ==
  /\ outcome.status = "resolved"
  /\ outcome.request.op = "search"
  /\ \E c \in waiting : c.op \in {"recommend", "featured"}
  /\ Len(warehouse) = 2
  /\ outcome.value.results = Loaded
  /\ byPopularityDesc(warehouse) # warehouse

\* A nearby call has returned a record with its distance while a call made
\* before it waits.
C25_WitnessNearby ==
  /\ outcome.status = "resolved"
  /\ outcome.request.op = "nearby"
  /\ waiting # {}
  /\ Len(outcome.value) > 0

\* The detail view is rendered: none of the guards before it returns
\* (part_002:534-567).
ShowsDetails ==
  /\ detailScreen.mounted
  /\ ~detailScreen.loading
  /\ detailScreen.error = Null
  /\ detailScreen.preschool # Null

\* C29: when the screen is not loading and shows no error, the preschool it
\* displays is the one with the current preschoolId.
C29_ShowsCurrentPreschool ==
  ShowsDetails => detailScreen.preschool.id = detailScreen.preschoolId

\* The screen shows a preschool as loaded whose id is not the route
\* parameter while the load of the current one is still pending.
C29_ShowsStalePreschool ==
  /\ ShowsDetails
  /\ detailScreen.preschool.id # detailScreen.preschoolId
  /\ detailScreen.timers # <<>>
  /\ detailScreen.timers[1].id = detailScreen.preschoolId

\* With no load pending, what the detail view shows is the preschool of the
\* route parameter.
ShowsCurrentWhenNoLoadPending ==
  (ShowsDetails /\ detailScreen.timers = <<>>) =>
    detailScreen.preschool.id = detailScreen.preschoolId

\* A load of FeaturedPreschools has just ended with its call rejected.
FeaturedLoadRejected ==
  featuredPreschools' # featuredPreschools
    /\ featuredPreschools'.last = "rejected"

\* A load of FeaturedPreschools has just ended with its call resolved.
FeaturedLoadResolved ==
  featuredPreschools' # featuredPreschools
    /\ featuredPreschools'.last = "resolved"

\* A load of HomeScreen has just ended.
HomeLoadEnded ==
  homeScreen' # homeScreen /\ homeScreen'.last \in {"resolved", "rejected"}

\* C30: every load of FeaturedPreschools and of HomeScreen ends with the
\* loading flag false, whether its call resolved or was rejected, and a
\* loading component stops loading; a rejected call of FeaturedPreschools
\* leaves the error message set and the list as it was, and one that
\* resolved replaces the list and leaves no error.
C30_LoadsEndNotLoading ==
  /\ (featuredPreschools.mounted /\ featuredPreschools.loading)
       ~> (featuredPreschools.mounted /\ ~featuredPreschools.loading)
  /\ (homeScreen.mounted /\ homeScreen.loadingNearby)
       ~> (homeScreen.mounted /\ ~homeScreen.loadingNearby)
  /\ [][/\ FeaturedLoadRejected =>
             /\ ~featuredPreschools'.loading
             /\ featuredPreschools'.error # Null
             /\ featuredPreschools'.preschools = featuredPreschools.preschools
        /\ FeaturedLoadResolved =>
             /\ ~featuredPreschools'.loading
             /\ featuredPreschools'.error = Null
             /\ featuredPreschools'.preschools =
                  slice(byPopularityDesc(getMockPreschools), 0,
                        featuredPreschools.limit)
        /\ HomeLoadEnded => ~homeScreen'.loadingNearby]_vars

\* FeaturedPreschools shows its list with no error and is not loading, after
\* a load that was rejected and a refresh that resolved.
C30_Witness ==
  /\ featuredPreschools.mounted
  /\ featuredPreschools.rejected
  /\ featuredPreschools.last = "resolved"
  /\ ~featuredPreschools.loading
  /\ featuredPreschools.error = Null
  /\ Len(featuredPreschools.preschools) > 0

\* FeaturedPreschools shows its error with an empty list after a rejected
\* load.
C30_WitnessRejected ==
  /\ featuredPreschools.mounted
  /\ featuredPreschools.last = "rejected"
  /\ ~featuredPreschools.loading
  /\ featuredPreschools.error # Null
  /\ featuredPreschools.preschools = <<>>

\* HomeScreen is not loading after a rejected load, with a load of onRefresh
\* still pending.
C30_WitnessHome ==
  /\ homeScreen.mounted
  /\ homeScreen.last = "rejected"
  /\ ~homeScreen.loadingNearby
  /\ homeScreen.refreshing
  /\ homeScreen.pending # <<>>
====
